---- MODULE Spec2Model ----
(***************************************************************************)
(* Model of the aiboard session orchestration and streaming-translation    *)
(* engine: the streaming emission policy of AgentService.streamActions,    *)
(* the brace-scanning decoder of ExecutorAgent.streamActions and the        *)
(* per-session controller AgentDurableObject.webSocketMessage with the     *)
(* Planner, Executor and Verifier role agents.                              *)
(*                                                                         *)
(* Text is a sequence of one-character strings.  JSON.parse is modelled by *)
(* a recursive-descent recogniser of the JSON grammar over the alphabet    *)
(* the model's inputs are written in (objects, arrays, strings with        *)
(* backslash escapes, unsigned integers, blanks and newlines); a parsed    *)
(* value is represented by its text.                                       *)
(***************************************************************************)
EXTENDS Integers, Sequences, FiniteSets, TLC

\* A value no text equals: undefined / null of the source.
Null == <<"undefined">>

(***************************************************************************)
(* Characters                                                              *)
(***************************************************************************)
Q == "\""
BSL == "\\"
NL == "\n"
Ws == {" ", NL}
Digits == {"0", "1", "2", "3", "4", "5", "6", "7", "8", "9"}
EscapeOK == {Q, BSL, "/", "b", "f", "n", "r", "t"}

Slice(s, a, b) == IF a > b THEN << >> ELSE SubSeq(s, a, b)

\* String.prototype.indexOf for a single character, 1-based; 0 when absent.
\* The first of two indexes that is one (0 stands for none).
OrElse(first, second) == IF first # 0 THEN first ELSE second

\* The first index of c in lo..hi; the range is halved so that the
\* evaluation stays shallow on long texts.
RECURSIVE IndexIn(_, _, _, _)
IndexIn(s, c, lo, hi) ==
    IF lo > hi THEN 0
    ELSE IF lo = hi THEN (IF s[lo] = c THEN lo ELSE 0)
    ELSE OrElse(IndexIn(s, c, lo, (lo + hi) \div 2), IndexIn(s, c, (lo + hi) \div 2 + 1, hi))

IndexFrom(s, c, i) == IndexIn(s, c, i, Len(s))

IndexOf(s, c) == IndexFrom(s, c, 1)

(***************************************************************************)
(* JSON.parse as a pushdown recogniser: one step per character.  mode is   *)
(* what the parser expects next and stack the containers still open.       *)
(***************************************************************************)
Top(st) == IF Len(st) = 0 THEN "" ELSE st[Len(st)]
Pop(st) == SubSeq(st, 1, Len(st) - 1)

PFail == [mode |-> "fail", stack |-> << >>]

\* At the start of a value.
PValue(stack, c) ==
    IF c = "{" THEN [mode |-> "firstKey", stack |-> Append(stack, "{")]
    ELSE IF c = "[" THEN [mode |-> "first", stack |-> Append(stack, "[")]
    ELSE IF c = Q THEN [mode |-> "inStr", stack |-> stack]
    ELSE IF c = "0" THEN [mode |-> "zero", stack |-> stack]
    ELSE IF c \in Digits THEN [mode |-> "num", stack |-> stack]
    ELSE PFail

\* After a complete value.
PAfter(stack, c) ==
    IF c \in Ws THEN [mode |-> "after", stack |-> stack]
    ELSE IF c = "," /\ Top(stack) = "{" THEN [mode |-> "key", stack |-> stack]
    ELSE IF c = "," /\ Top(stack) = "[" THEN [mode |-> "value", stack |-> stack]
    ELSE IF c = "}" /\ Top(stack) = "{" THEN [mode |-> "after", stack |-> Pop(stack)]
    ELSE IF c = "]" /\ Top(stack) = "[" THEN [mode |-> "after", stack |-> Pop(stack)]
    ELSE PFail

\* Inside a string; done is the mode after its closing quote.
PString(p, c, esc, done) ==
    IF c = Q THEN [p EXCEPT !.mode = done]
    ELSE IF c = BSL THEN [p EXCEPT !.mode = esc]
    ELSE IF c = NL THEN PFail
    ELSE p

PStep(p, c) ==
    CASE p.mode = "fail" -> PFail
      [] p.mode = "inStr" -> PString(p, c, "inStrEsc", "after")
      [] p.mode = "inKey" -> PString(p, c, "inKeyEsc", "colon")
      [] p.mode = "inStrEsc" -> IF c \in EscapeOK THEN [p EXCEPT !.mode = "inStr"] ELSE PFail
      [] p.mode = "inKeyEsc" -> IF c \in EscapeOK THEN [p EXCEPT !.mode = "inKey"] ELSE PFail
      [] p.mode = "num" -> IF c \in Digits THEN p ELSE PAfter(p.stack, c)
      [] p.mode = "zero" -> IF c \in Digits THEN PFail ELSE PAfter(p.stack, c)
      [] p.mode = "after" -> PAfter(p.stack, c)
      [] p.mode = "value" -> IF c \in Ws THEN p ELSE PValue(p.stack, c)
      [] p.mode = "first" ->
            IF c \in Ws THEN p
            ELSE IF c = "]" THEN [mode |-> "after", stack |-> Pop(p.stack)]
            ELSE PValue(p.stack, c)
      [] p.mode = "firstKey" ->
            IF c \in Ws THEN p
            ELSE IF c = "}" THEN [mode |-> "after", stack |-> Pop(p.stack)]
            ELSE IF c = Q THEN [p EXCEPT !.mode = "inKey"]
            ELSE PFail
      [] p.mode = "key" ->
            IF c \in Ws THEN p
            ELSE IF c = Q THEN [p EXCEPT !.mode = "inKey"]
            ELSE PFail
      [] p.mode = "colon" ->
            IF c \in Ws THEN p
            ELSE IF c = ":" THEN [p EXCEPT !.mode = "value"]
            ELSE PFail

\* The characters lo..hi in order; the range is halved so that the
\* evaluation stays shallow on long texts.
RECURSIVE PRange(_, _, _, _)
PRange(p, s, lo, hi) ==
    IF p.mode = "fail" \/ lo > hi THEN p
    ELSE IF lo = hi THEN PStep(p, s[lo])
    ELSE PRange(PRange(p, s, lo, (lo + hi) \div 2), s, (lo + hi) \div 2 + 1, hi)

PRun(p, s, i) == PRange(p, s, i, Len(s))

PAccepts(p) == p.mode \in {"after", "num", "zero"} /\ Len(p.stack) = 0

\* JSON.parse(s) succeeds.
IsJSON(s) == PAccepts(PRun([mode |-> "value", stack |-> << >>], s, 1))

(***************************************************************************)
(* Reading a parsed value.  A valid container text is cut at its commas of *)
(* depth one; sc is the scan state: depth, in a string, after a backslash, *)
(* the start of the current item and the items so far.                     *)
(***************************************************************************)
RECURSIVE SkipWs(_, _)
SkipWs(s, i) == IF i <= Len(s) /\ s[i] \in Ws THEN SkipWs(s, i + 1) ELSE i

RECURSIVE SkipWsBack(_, _)
SkipWsBack(s, i) == IF i >= 1 /\ s[i] \in Ws THEN SkipWsBack(s, i - 1) ELSE i

Trim(s) == Slice(s, SkipWs(s, 1), SkipWsBack(s, Len(s)))

CutItem(sc, s, i) ==
    IF Len(Trim(Slice(s, sc.from, i - 1))) = 0 THEN sc.items
    ELSE Append(sc.items, Trim(Slice(s, sc.from, i - 1)))

CutStep(sc, s, i) ==
    IF sc.esc THEN [sc EXCEPT !.esc = FALSE]
    ELSE IF sc.inString
         THEN IF s[i] = BSL THEN [sc EXCEPT !.esc = TRUE]
              ELSE IF s[i] = Q THEN [sc EXCEPT !.inString = FALSE]
              ELSE sc
    ELSE IF s[i] = Q THEN [sc EXCEPT !.inString = TRUE]
    ELSE IF s[i] = "{" \/ s[i] = "["
         THEN IF sc.depth = 0 THEN [sc EXCEPT !.depth = 1, !.from = i + 1]
              ELSE [sc EXCEPT !.depth = @ + 1]
    ELSE IF s[i] = "}" \/ s[i] = "]"
         THEN IF sc.depth = 1 THEN [sc EXCEPT !.depth = 0, !.items = CutItem(sc, s, i)]
              ELSE [sc EXCEPT !.depth = @ - 1]
    ELSE IF s[i] = "," /\ sc.depth = 1
         THEN [sc EXCEPT !.from = i + 1, !.items = CutItem(sc, s, i)]
    ELSE sc

RECURSIVE CutRange(_, _, _, _)
CutRange(sc, s, lo, hi) ==
    IF sc.depth < 0 \/ lo > hi THEN sc
    ELSE IF lo = hi THEN CutStep(sc, s, lo)
    ELSE CutRange(CutRange(sc, s, lo, (lo + hi) \div 2), s, (lo + hi) \div 2 + 1, hi)

CutRun(sc, s, i) == CutRange(sc, s, i, Len(s)).items

\* The elements of a valid array text, or the members of a valid object text.
Elements(s) ==
    CutRun([depth |-> 0, inString |-> FALSE, esc |-> FALSE, from |-> 1, items |-> << >>], s, 1)

IsObjectText(s) == Len(s) > 0 /\ s[SkipWs(s, 1)] = "{"
IsArrayText(s) == Len(s) > 0 /\ s[SkipWs(s, 1)] = "["

\* The end of the key string that starts member text m.
RECURSIVE KeyEnd(_, _)
KeyEnd(m, j) ==
    IF j > Len(m) THEN j
    ELSE IF m[j] = BSL THEN KeyEnd(m, j + 2)
    ELSE IF m[j] = Q THEN j
    ELSE KeyEnd(m, j + 1)

MemberKey(m) == Slice(m, 1, KeyEnd(m, 2))
MemberValue(m) == Trim(Slice(m, SkipWs(m, KeyEnd(m, 2) + 1) + 1, Len(m)))

\* obj[key] of a parsed object: the value text of the last member named key
\* (JSON.parse keeps the last duplicate), or Null when there is none.
RECURSIVE LookupIn(_, _, _)
LookupIn(ms, key, n) ==
    IF n = 0 THEN Null
    ELSE IF MemberKey(ms[n]) = key THEN MemberValue(ms[n])
    ELSE LookupIn(ms, key, n - 1)

Members(s) == Elements(s)

Property(s, key) ==
    IF IsObjectText(s) THEN LookupIn(Members(s), key, Len(Members(s)))
    ELSE Null

\* JavaScript truthiness of a parsed value: of the values of the alphabet
\* only the empty string and 0 are falsy.
Truthy(v) == v # Null /\ v # <<Q, Q>> /\ v # <<"0">>

(***************************************************************************)
(* closeAndParseJson                                                       *)
(***************************************************************************)
\* One character of the tracking loop: the stack of openings after it.
TrackChar(st, c) ==
    IF c = Q THEN IF Top(st) = Q THEN Pop(st) ELSE Append(st, Q)
    ELSE IF c = "{" \/ c = "[" THEN Append(st, c)
    ELSE IF c = "}" /\ Top(st) = "{" THEN Pop(st)
    ELSE IF c = "]" /\ Top(st) = "[" THEN Pop(st)
    ELSE st

\* The tracking loop from character i on, with the stack so far.
RECURSIVE TrackRange(_, _, _, _)
TrackRange(st, s, lo, hi) ==
    IF Len(st) < 0 \/ lo > hi THEN st
    ELSE IF lo = hi THEN TrackChar(st, s[lo])
    ELSE TrackRange(TrackRange(st, s, lo, (lo + hi) \div 2), s, (lo + hi) \div 2 + 1, hi)

TrackFrom(st, s, i) == TrackRange(st, s, i, Len(s))

StackOfOpenings(s) == TrackFrom(<< >>, s, 1)

Closer(c) == IF c = "{" THEN "}" ELSE IF c = "[" THEN "]" ELSE Q

\* The closers of the still-open openings, innermost first.
RECURSIVE Closers(_)
Closers(st) == IF Len(st) = 0 THEN << >> ELSE <<Closer(Top(st))>> \o Closers(Pop(st))

ParseOrNull(closed) == IF IsJSON(closed) THEN closed ELSE Null

\* JSON.parse of the string as it is, without the closers.
ParseWithoutClosing(s) == ParseOrNull(s)

\* closeAndParseJson(string): the parsed value (its text), or Null.
CloseAndParseJson(s) == ParseOrNull(s \o Closers(StackOfOpenings(s)))

(***************************************************************************)
(* AgentService.streamActions: the emission policy over the text stream    *)
(***************************************************************************)
KActions == <<Q, "a", "c", "t", "i", "o", "n", "s", Q>>
KType == <<Q, "_", "t", "y", "p", "e", Q>>

\* '{"actions": [{"_type":'
ForcedPrefix == <<"{">> \o KActions \o <<":", " ", "[", "{">> \o KType \o <<":">>

ArrayOrEmpty(actions) ==
    IF actions = Null THEN << >>
    ELSE IF ~IsArrayText(actions) THEN << >>
    ELSE Elements(actions)

ActionsOf(partialObject) ==
    IF partialObject = Null THEN << >>
    ELSE ArrayOrEmpty(Property(partialObject, KActions))

\* The list the loop body works on: partialObject.actions when the buffer
\* closes to an object whose actions member is a non-empty array, else the
\* empty list (the three `continue` statements).
PartialActions(buffer) == ActionsOf(CloseAndParseJson(buffer))

\* actions[k] of the source (0-based k, undefined out of range).
At(actions, k) == IF k >= 0 /\ k < Len(actions) THEN actions[k + 1] ELSE Null

MaxPreviewRun == 2

\* The record of one yield; a run of previews of the same action is kept as
\* one entry with its length, counted up to MaxPreviewRun.
Yield(out, idx, complete) ==
    IF ~complete /\ Len(out) > 0 /\ out[Len(out)].idx = idx /\ ~out[Len(out)].complete
    THEN [out EXCEPT ![Len(out)].n = IF @ < MaxPreviewRun THEN @ + 1 ELSE @]
    ELSE Append(out, [idx |-> idx, complete |-> complete, n |-> 1])

NoAction == [idx |-> -1, action |-> Null]

\* The completion without the move of the cursor.
CompleteAndStay(st, actions) ==
    IF Len(actions) > st.cursor
    THEN IF Truthy(At(actions, st.cursor - 1))
         THEN [st EXCEPT !.out = Yield(@, st.cursor - 1, TRUE),
                         !.maybeIncompleteAction = NoAction]
         ELSE [st EXCEPT !.cursor = @ + 1]
    ELSE st

\* `if (actions.length > cursor)`: complete the action before the cursor and
\* move the cursor forward.
CompleteAndAdvance(st, actions) ==
    IF Len(actions) > st.cursor
    THEN IF Truthy(At(actions, st.cursor - 1))
         THEN [st EXCEPT !.out = Yield(@, st.cursor - 1, TRUE),
                         !.maybeIncompleteAction = NoAction,
                         !.cursor = @ + 1]
         ELSE [st EXCEPT !.cursor = @ + 1]
    ELSE st

\* Yield the action at the cursor in its potentially incomplete state.
YieldCurrent(st, actions) ==
    IF Truthy(At(actions, st.cursor - 1))
    THEN [st EXCEPT !.maybeIncompleteAction =
                        [idx |-> st.cursor - 1, action |-> At(actions, st.cursor - 1)],
                    !.out = Yield(@, st.cursor - 1, FALSE)]
    ELSE st

LoopBody(st, actions) ==
    IF Len(actions) = 0 THEN st
    ELSE YieldCurrent(CompleteAndAdvance(st, actions), actions)

\* One iteration of `for await (const text of textStream)`.
StreamChunk(st, text) ==
    LoopBody([st EXCEPT !.buffer = @ \o text], PartialActions(st.buffer \o text))

\* StreamEnd without the completion of the last action.
StreamEndNoFlush(st) == st

\* After the loop: complete the action that is still incomplete.
StreamEnd(st) ==
    IF st.maybeIncompleteAction # NoAction
    THEN [st EXCEPT !.out = Yield(st.out, st.maybeIncompleteAction.idx, TRUE)]
    ELSE st

(***************************************************************************)
(* Responses streamed to streamActions                                     *)
(***************************************************************************)
Str(chars) == <<Q>> \o chars \o <<Q>>
ActCreate == <<"{">> \o KType \o <<":">> \o Str(<<"c">>) \o <<"}">>
ActMove == <<"{">> \o KType \o <<":">> \o Str(<<"m">>) \o <<",">> \o Str(<<"x">>)
             \o <<":", "5", "}">>
ActMessage == <<"{">> \o KType \o <<":">> \o Str(<<"t">>) \o <<",", " ">> \o Str(<<"s">>)
                \o <<":">> \o Str(<<"o", "k">>) \o <<"}">>

RECURSIVE JoinActions(_)
JoinActions(as) ==
    IF Len(as) = 0 THEN << >>
    ELSE IF Len(as) = 1 THEN as[1]
    ELSE as[1] \o <<",">> \o JoinActions(Tail(as))

\* '{"actions": [' a1 ',' ... ',' aN ']}'
Response(as) ==
    <<"{">> \o KActions \o <<":", " ", "[">> \o JoinActions(as) \o <<"]", "}">>

MaxStreamActions == 3

ActionLists ==
    { << >>, <<ActCreate>>, <<ActMove>>, <<ActCreate, ActMove>>, <<ActMessage, ActCreate>> }
    \cup { [i \in 1..MaxStreamActions |-> IF i % 2 = 1 THEN ActCreate ELSE ActMove] }

IsPrefix(p, s) == Len(p) <= Len(s) /\ SubSeq(s, 1, Len(p)) = p

VARIABLES
    sa,          \* streamActions: buffer, cursor, maybeIncompleteAction, yields
    sa_text,     \* the text the model will stream, chunk by chunk
    sa_expect,   \* the actions of the whole response
    sa_split,    \* "char": one character per chunk; "any": any split
    sa_pc        \* "idle", "stream", "done"

saVars == <<sa, sa_text, sa_expect, sa_split, sa_pc>>

VARIABLES
    ex,          \* the scan loop: pc, buffer, startIndex, written, iter, open0, skips
    ex_text      \* the text the generation client will still deliver

exVars == <<ex, ex_text>>

VARIABLES
    turn,        \* per webSocketMessage invocation: its position and locals
    strm,        \* per invocation: the executor stream it is reading
    seg,         \* per invocation: what it sent to the client since the last
                 \* task-started or all-tasks-completed message
    pl_todoList, \* PlannerAgent state.todoList
    pl_version,  \* how many times the planner replaced its list
    ea_client    \* ExecutorAgent.client

ctlVars == <<turn, strm, seg, pl_todoList, pl_version, ea_client>>

VARIABLES
    ag           \* a role agent's client reference, its VertexAIClient and its call

agVars == <<ag>>

VARIABLES
    br           \* a bridge: its client socket and its generation sockets

brVars == <<br>>

VARIABLES
    dc           \* a decoder call: the text and what each decoder returned

dcVars == <<dc>>

VARIABLES
    pa           \* a response text in the planner and in the verifier

paVars == <<pa>>

VARIABLES
    au           \* the audio path: the frames received and the frames forwarded

auVars == <<au>>

VARIABLES
    sn           \* the controller's shapes: the request's objects and currentShapes

snVars == <<sn>>

VARIABLES
    vc           \* a connected VertexAIClient: its event slot and the calls made on it

vcVars == <<vc>>

VARIABLES
    ls           \* the demo worker's incremental sender on one generation socket

lsVars == <<ls>>

VARIABLES
    pn           \* the PlannerAgent's state and the updateTaskStatus calls made

pnVars == <<pn>>

\* What the steps of one component leave alone.
saOther == <<exVars, ctlVars, agVars, brVars, dcVars, paVars, auVars, snVars, vcVars, lsVars, pnVars>>
exOther == <<saVars, ctlVars, agVars, brVars, dcVars, paVars, auVars, snVars, vcVars, lsVars, pnVars>>
ctlOther == <<saVars, exVars, agVars, brVars, dcVars, paVars, auVars, snVars, vcVars, lsVars, pnVars>>
agOther == <<saVars, exVars, ctlVars, brVars, dcVars, paVars, auVars, snVars, vcVars, lsVars, pnVars>>
brOther == <<saVars, exVars, ctlVars, agVars, dcVars, paVars, auVars, snVars, vcVars, lsVars, pnVars>>
dcOther == <<saVars, exVars, ctlVars, agVars, brVars, paVars, auVars, snVars, vcVars, lsVars, pnVars>>
paOther == <<saVars, exVars, ctlVars, agVars, brVars, dcVars, auVars, snVars, vcVars, lsVars, pnVars>>
auOther == <<saVars, exVars, ctlVars, agVars, brVars, dcVars, paVars, snVars, vcVars, lsVars, pnVars>>
snOther == <<saVars, exVars, ctlVars, agVars, brVars, dcVars, paVars, auVars, vcVars, lsVars, pnVars>>
vcOther == <<saVars, exVars, ctlVars, agVars, brVars, dcVars, paVars, auVars, snVars, lsVars, pnVars>>
lsOther == <<saVars, exVars, ctlVars, agVars, brVars, dcVars, paVars, auVars, snVars, vcVars, pnVars>>
pnOther == <<saVars, exVars, ctlVars, agVars, brVars, dcVars, paVars, auVars, snVars, vcVars, lsVars>>

SAInit ==
    /\ sa = [buffer |-> << >>, cursor |-> 0, maybeIncompleteAction |-> NoAction,
             out |-> << >>]
    /\ sa_text = << >>
    /\ sa_expect = << >>
    /\ sa_split = "any"
    /\ sa_pc = "idle"

\* streamActions is called: the response the model will give, how the
\* text stream splits it, and whether the provider has its start forced.
SAStart ==
    /\ sa_pc = "idle"
    /\ \E as \in ActionLists, canForceResponseStart \in BOOLEAN, split \in {"char", "any"} :
         /\ canForceResponseStart => IsPrefix(ForcedPrefix, Response(as))
         /\ sa' = [buffer |-> IF canForceResponseStart THEN ForcedPrefix ELSE << >>,
                   cursor |-> 0, maybeIncompleteAction |-> NoAction, out |-> << >>]
         /\ sa_text' = IF canForceResponseStart
                       THEN SubSeq(Response(as), Len(ForcedPrefix) + 1, Len(Response(as)))
                       ELSE Response(as)
         /\ sa_expect' = as
         /\ sa_split' = split
    /\ sa_pc' = "stream"
    /\ UNCHANGED saOther

\* The text stream delivers its next chunk.
SAChunk ==
    /\ sa_pc = "stream"
    /\ Len(sa_text) > 0
    /\ \E n \in 1..Len(sa_text) :
         /\ sa_split = "char" => n = 1
         /\ sa' = StreamChunk(sa, SubSeq(sa_text, 1, n))
         /\ sa_text' = SubSeq(sa_text, n + 1, Len(sa_text))
    /\ UNCHANGED <<sa_expect, sa_split, sa_pc>>
    /\ UNCHANGED saOther

\* The text stream ends.
SAEnd ==
    /\ sa_pc = "stream"
    /\ Len(sa_text) = 0
    /\ sa' = StreamEnd(sa)
    /\ sa_pc' = "done"
    /\ UNCHANGED <<sa_text, sa_expect, sa_split>>
    /\ UNCHANGED saOther

SANext == SAStart \/ SAChunk \/ SAEnd

(***************************************************************************)
(* ExecutorAgent.streamActions: the scan loop over the growing buffer      *)
(***************************************************************************)
\* "Find the matching closing brace": the index where the balance of braces
\* counted from startIndex returns to zero, or 0 (endIndex = -1).
\* One index of the loop: b.balance after the character, b.found the index
\* at which the loop has stopped (0 while it runs).
MatchStep(b, buffer, i) ==
    IF b.found # 0 THEN b
    ELSE IF buffer[i] = "{" THEN [b EXCEPT !.balance = @ + 1]
    ELSE IF buffer[i] = "}"
         THEN IF b.balance = 1 THEN [b EXCEPT !.found = i] ELSE [b EXCEPT !.balance = @ - 1]
    ELSE IF b.balance = 0 THEN [b EXCEPT !.found = i]
    ELSE b

RECURSIVE MatchRange(_, _, _, _)
MatchRange(b, buffer, lo, hi) ==
    IF b.found # 0 \/ lo > hi THEN b
    ELSE IF lo = hi THEN MatchStep(b, buffer, lo)
    ELSE MatchRange(MatchRange(b, buffer, lo, (lo + hi) \div 2), buffer,
                    (lo + hi) \div 2 + 1, hi)

MatchFrom(buffer, i, balance) ==
    MatchRange([balance |-> balance, found |-> 0], buffer, i, Len(buffer)).found

EndIndex(buffer, startIndex) == MatchFrom(buffer, startIndex, 0)

\* JSON.stringify(JSON.parse(text)): the text without its insignificant blanks.
\* One index of the copy: r.next is where it goes on after an escape.
StringifyStep(r, text, i) ==
    IF i < r.next THEN r
    ELSE IF r.inString /\ text[i] = BSL
         THEN [r EXCEPT !.next = i + 2, !.acc = @ \o Slice(text, i, i + 1)]
    ELSE IF text[i] = Q
         THEN [r EXCEPT !.next = i + 1, !.inString = ~@, !.acc = Append(@, text[i])]
    ELSE IF ~r.inString /\ text[i] \in Ws THEN [r EXCEPT !.next = i + 1]
    ELSE [r EXCEPT !.next = i + 1, !.acc = Append(@, text[i])]

RECURSIVE StringifyRange(_, _, _, _)
StringifyRange(r, text, lo, hi) ==
    IF r.next < 0 \/ lo > hi THEN r
    ELSE IF lo = hi THEN StringifyStep(r, text, lo)
    ELSE StringifyRange(StringifyRange(r, text, lo, (lo + hi) \div 2), text,
                        (lo + hi) \div 2 + 1, hi)

StringifyFrom(text, i, inString, acc) ==
    StringifyRange([next |-> i, inString |-> inString, acc |-> acc], text, i, Len(text)).acc

Stringify(text) == StringifyFrom(text, 1, FALSE, << >>)

CountOpen(buffer, i) == Cardinality({k \in i..Len(buffer) : buffer[k] = "{"})

\* The block is parsed and written: `buffer = buffer.slice(endIndex + 1)`.
AfterEmit(buffer, endIndex) == Slice(buffer, endIndex + 1, Len(buffer))

\* The skip branch without dropping the opening brace.
AfterSkipKeepBrace(buffer, startIndex) == Slice(buffer, startIndex, Len(buffer))

\* The block failed to parse: `buffer = buffer.slice(startIndex + 1)`.
AfterSkip(buffer, startIndex) == Slice(buffer, startIndex + 1, Len(buffer))

MaxExecLen == 5
ExecAlphabet == {"{", "}", Q}

\* {"_type":"t","s":"{"} and {"_type":"t","s":"}"}
ActBrace(c) ==
    <<"{">> \o KType \o <<":">> \o Str(<<"t">>) \o <<",">> \o Str(<<"s">>)
    \o <<":">> \o Str(<<c>>) \o <<"}">>

ExecSamples ==
    { ActCreate \o <<NL>> \o ActMove \o <<NL>>,
      ActBrace("{") \o ActCreate,
      ActBrace("}") \o ActCreate,
      <<"{">> \o Str(<<"s">>) \o <<":">> \o ActMove \o <<"}", " ">> \o ActCreate,
      <<"{">> \o Str(<<"s">>) \o <<":">> \o Str(<<"}">>) \o <<"}">> \o ActCreate,
      <<"{", " ">> \o ActCreate \o <<NL, "{">> }

ExecTexts ==
    (UNION { [1..n -> ExecAlphabet] : n \in 0..MaxExecLen }) \cup ExecSamples

\* The chunk in place of the buffer.
ReplaceBuffer(buffer, chunk) == chunk

\* buffer += chunk
Accumulate(buffer, chunk) == buffer \o chunk

\* streamActions on a stream that delivers the whole text as one chunk: the
\* lines written.
RECURSIVE DecodeAll(_, _)
DecodeAll(buffer, written) ==
    LET startIndex == IndexOf(buffer, "{")
        endIndex == EndIndex(buffer, startIndex)
        potentialJson == Slice(buffer, startIndex, endIndex)
    IN IF startIndex = 0 THEN written
       ELSE IF endIndex = 0 THEN written
       ELSE IF IsJSON(potentialJson)
            THEN DecodeAll(AfterEmit(buffer, endIndex),
                           Append(written, Stringify(potentialJson) \o <<NL>>))
       ELSE DecodeAll(AfterSkip(buffer, startIndex), written)

EXInit ==
    /\ ex = [pc |-> "idle", text |-> << >>, buffer |-> << >>, startIndex |-> 0,
             written |-> << >>, iter |-> 0, open0 |-> 0, skips |-> 0, chunks |-> 0]
    /\ ex_text = << >>

\* streamActions starts consuming client.stream(prompt).
EXStart ==
    /\ ex.pc = "idle"
    /\ \E text \in ExecTexts :
         /\ ex_text' = text
         /\ ex' = [ex EXCEPT !.pc = "recv", !.text = text]
    /\ UNCHANGED exOther

\* `for await (const chunk ...)`: buffer += chunk; startIndex = indexOf('{').
EXRecv ==
    /\ ex.pc = "recv"
    /\ Len(ex_text) > 0
    /\ \E n \in 1..Len(ex_text) :
         /\ ex' = [ex EXCEPT !.pc = "scan",
                             !.buffer = Accumulate(@, SubSeq(ex_text, 1, n)),
                             !.startIndex = IndexOf(Accumulate(ex.buffer,
                                                               SubSeq(ex_text, 1, n)), "{"),
                             !.iter = 0,
                             !.chunks = IF @ < 2 THEN @ + 1 ELSE @,
                             !.open0 = CountOpen(Accumulate(ex.buffer,
                                                            SubSeq(ex_text, 1, n)), 1)]
         /\ ex_text' = SubSeq(ex_text, n + 1, Len(ex_text))
    /\ UNCHANGED exOther

\* `while (startIndex !== -1)` is false: back to the stream.
EXNoBrace ==
    /\ ex.pc = "scan"
    /\ ex.startIndex = 0
    /\ ex' = [ex EXCEPT !.pc = "recv"]
    /\ UNCHANGED ex_text
    /\ UNCHANGED exOther

\* A complete block that parses: write it and advance the buffer past it.
EXEmit ==
    /\ ex.pc = "scan"
    /\ ex.startIndex # 0
    /\ EndIndex(ex.buffer, ex.startIndex) # 0
    /\ IsJSON(Slice(ex.buffer, ex.startIndex, EndIndex(ex.buffer, ex.startIndex)))
    /\ ex' = [ex EXCEPT
                !.written = Append(@, Stringify(Slice(ex.buffer, ex.startIndex,
                                                      EndIndex(ex.buffer, ex.startIndex)))
                                      \o <<NL>>),
                !.buffer = AfterEmit(ex.buffer, EndIndex(ex.buffer, ex.startIndex)),
                !.startIndex = IndexOf(AfterEmit(ex.buffer,
                                                 EndIndex(ex.buffer, ex.startIndex)), "{"),
                !.iter = @ + 1]
    /\ UNCHANGED ex_text
    /\ UNCHANGED exOther

\* A complete block that does not parse: skip its opening brace.
EXSkip ==
    /\ ex.pc = "scan"
    /\ ex.startIndex # 0
    /\ EndIndex(ex.buffer, ex.startIndex) # 0
    /\ ~IsJSON(Slice(ex.buffer, ex.startIndex, EndIndex(ex.buffer, ex.startIndex)))
    /\ ex' = [ex EXCEPT
                !.buffer = AfterSkip(ex.buffer, ex.startIndex),
                !.startIndex = IndexOf(AfterSkip(ex.buffer, ex.startIndex), "{"),
                !.iter = @ + 1,
                !.skips = IF @ < 1 THEN @ + 1 ELSE @]
    /\ UNCHANGED ex_text
    /\ UNCHANGED exOther

\* An incomplete object: wait for more data.
EXWait ==
    /\ ex.pc = "scan"
    /\ ex.startIndex # 0
    /\ EndIndex(ex.buffer, ex.startIndex) = 0
    /\ ex' = [ex EXCEPT !.pc = "recv"]
    /\ UNCHANGED ex_text
    /\ UNCHANGED exOther

\* The stream is finished: `finally { await writer.close() }`.
EXEnd ==
    /\ ex.pc = "recv"
    /\ Len(ex_text) = 0
    /\ ex' = [ex EXCEPT !.pc = "done"]
    /\ UNCHANGED ex_text
    /\ UNCHANGED exOther

EXNext == EXStart \/ EXRecv \/ EXNoBrace \/ EXEmit \/ EXSkip \/ EXWait \/ EXEnd

(***************************************************************************)
(* AgentDurableObject.webSocketMessage with the Planner, Executor and      *)
(* Verifier agents of the session.  A step runs from one await to the      *)
(* next; invocations for different messages interleave at the awaits.      *)
(***************************************************************************)
MaxTurns == 2
MaxTasks == 2
MaxActs == 2
MaxSuggestions == 1

Turns == 1..MaxTurns
TaskIds == [i \in 1..MaxTasks |-> <<"t", i>>]

\* The lists a planner response carries in its todoList field: up to MaxTasks
\* new tasks, and a list in which two tasks carry the same id.
Plans ==
    { [i \in 1..n |-> [id |-> TaskIds[i], status |-> "todo"]] : n \in 0..MaxTasks }
    \cup { [i \in 1..MaxTasks |-> [id |-> TaskIds[1], status |-> "todo"]] }

NoItem == [ver |-> 0, pos |-> 0, id |-> << >>]

\* The status set on every task.
UpdateEveryTask(todoList, id, status) ==
    [i \in DOMAIN todoList |-> [todoList[i] EXCEPT !.status = status]]

\* PlannerAgent.updateTaskStatus
UpdateTaskStatus(todoList, id, status) ==
    [i \in DOMAIN todoList |->
        IF todoList[i].id = id THEN [todoList[i] EXCEPT !.status = status]
        ELSE todoList[i]]

\* todoList.find(item => item.status === 'todo'), as a position; 0 for none.
RECURSIVE FindTodo(_, _)
FindTodo(todoList, i) ==
    IF i > Len(todoList) THEN 0
    ELSE IF todoList[i].status = "todo" THEN i
    ELSE FindTodo(todoList, i + 1)

Msg(kind, task, a) == [k |-> kind, task |-> task, a |-> a]

\* n forwarded corrective actions.
Fixes(kind, task, n) == [a \in 1..n |-> Msg(kind, task, a)]

\* No message for a task without actions.
SilentNoAction(n, task) == << >>

\* "Task completed(no actions generated)" when actions.length is 0.
NoActionNotice(n, task) == IF n = 0 THEN <<Msg("noact", task, 0)>> ELSE << >>

\* The "Planning task: ..." message that precedes executeTask.
TaskStarted(task) == <<Msg("notice", task, 0)>>

\* client.stream() works only on a client that is assigned and connected.
Usable(client) == client.owner # 0 /\ client.connected

NoClient == [owner |-> 0, connected |-> FALSE]

NoStream == [state |-> "none", pending |-> 0, written |-> 0, erred |-> FALSE, task |-> NoItem]

\* The TransformStream executeTask returns, with streamActions started on
\* it; on an unusable client streamActions throws at once and the finally
\* closes the writer.
NewStream(client, task) ==
    [state |-> IF Usable(client) THEN "open" ELSE "closed",
     pending |-> 0, written |-> 0, erred |-> ~Usable(client), task |-> task]

CTInit ==
    /\ turn = [h \in Turns |-> [pc |-> "idle", sugg |-> FALSE, user |-> FALSE,
                                item |-> NoItem, n |-> 0, live |-> 0, finals |-> 0,
                                callfail |-> FALSE, vcalls |-> 0, rev |-> 0]]
    /\ strm = [h \in Turns |-> NoStream]
    /\ seg = [h \in Turns |-> << >>]
    /\ pl_todoList = << >>
    /\ pl_version = 0
    /\ ea_client = NoClient

\* A message arrives on the client socket; without user text nothing is done.
Receive(h) ==
    /\ turn[h].pc = "idle"
    /\ \E isSuggesterEnabled \in BOOLEAN, userText \in BOOLEAN :
         turn' = [turn EXCEPT ![h].pc = IF userText THEN "plan" ELSE "done",
                              ![h].sugg = isSuggesterEnabled /\ userText,
                              ![h].user = userText]
    /\ UNCHANGED <<strm, seg, pl_todoList, pl_version, ea_client>>
    /\ UNCHANGED ctlOther

\* The outer catch: `ws.send({ type: 'error', ... })`; the reader is dropped.
Abort(h, callfail) ==
    /\ turn' = [turn EXCEPT ![h].pc = "done", ![h].callfail = callfail]
    /\ seg' = [seg EXCEPT ![h] = Append(@, Msg("error", turn[h].item, 0))]
    /\ strm' = [strm EXCEPT ![h] = NoStream]

\* planner.addMessage: the response carries a todoList, which replaces the list.
PlanReplace(h) ==
    /\ turn[h].pc = "plan"
    /\ \E p \in Plans : pl_todoList' = p
    /\ pl_version' = pl_version + 1
    /\ turn' = [turn EXCEPT ![h].pc = "getstate"]
    /\ UNCHANGED <<strm, seg, ea_client>>
    /\ UNCHANGED ctlOther

\* planner.addMessage: the response has no usable todoList (no JSON, no such
\* field), or send or JSON.parse threw inside the try.
PlanKeep(h) ==
    /\ turn[h].pc = "plan"
    /\ turn' = [turn EXCEPT ![h].pc = "getstate"]
    /\ UNCHANGED <<strm, seg, pl_todoList, pl_version, ea_client>>
    /\ UNCHANGED ctlOther

\* planner.addMessage: the planner has no client and its connect, which is
\* outside the try, rejects.
PlanReject(h) ==
    /\ turn[h].pc = "plan"
    /\ Abort(h, FALSE)
    /\ UNCHANGED <<pl_todoList, pl_version, ea_client>>
    /\ UNCHANGED ctlOther

\* planner.getState() returns: the first todo item is announced and handed
\* to the executor, or, with none left, the loop is left (its locals go out
\* of scope) and the final verification is started.
GetState(h) ==
    /\ turn[h].pc \in {"getstate", "refresh"}
    /\ LET pos == FindTodo(pl_todoList, 1)
           todoItem == [ver |-> pl_version, pos |-> pos, id |-> pl_todoList[pos].id]
       IN IF pos # 0
          THEN /\ turn' = [turn EXCEPT ![h].pc = "call", ![h].item = todoItem, ![h].n = 0]
               /\ seg' = [seg EXCEPT ![h] = TaskStarted(todoItem)]
               /\ UNCHANGED strm
          ELSE /\ turn' = [turn EXCEPT ![h].pc = "final", ![h].finals = @ + 1,
                                       ![h].item = NoItem, ![h].n = 0]
               /\ seg' = [seg EXCEPT ![h] = <<Msg("alldone", NoItem, 0)>>]
               /\ strm' = [strm EXCEPT ![h] = NoStream]
    /\ UNCHANGED <<pl_todoList, pl_version, ea_client>>
    /\ UNCHANGED ctlOther

\* executeTask with no client: one is assigned and its connect is awaited.
ExecuteTaskConnect(h) ==
    /\ turn[h].pc = "call"
    /\ ea_client.owner = 0
    /\ ea_client' = [owner |-> h, connected |-> FALSE]
    /\ turn' = [turn EXCEPT ![h].pc = "connecting"]
    /\ UNCHANGED <<strm, seg, pl_todoList, pl_version>>
    /\ UNCHANGED ctlOther

\* executeTask returns a new stream with streamActions started on it.
StartStream(h, client) ==
    /\ strm' = [strm EXCEPT ![h] = NewStream(client, turn[h].item)]
    /\ ea_client' = IF Usable(client) THEN client ELSE NoClient
    /\ turn' = [turn EXCEPT ![h].pc = "read",
                            ![h].live = @ + (IF Usable(client) THEN 1 ELSE 0)]

\* executeTask with a client assigned: the stream is returned at once.
ExecuteTaskStream(h) ==
    /\ turn[h].pc = "call"
    /\ ea_client.owner # 0
    /\ StartStream(h, ea_client)
    /\ UNCHANGED <<seg, pl_todoList, pl_version>>
    /\ UNCHANGED ctlOther

\* The awaited connect resolves and executeTask returns the stream.
ConnectOk(h) ==
    /\ turn[h].pc = "connecting"
    /\ StartStream(h, IF ea_client.owner = h THEN [ea_client EXCEPT !.connected = TRUE]
                      ELSE ea_client)
    /\ UNCHANGED <<seg, pl_todoList, pl_version>>
    /\ UNCHANGED ctlOther

\* The awaited connect rejects: executeTask throws into the controller.
ConnectFail(h) ==
    /\ turn[h].pc = "connecting"
    /\ Abort(h, TRUE)
    /\ UNCHANGED <<pl_todoList, pl_version, ea_client>>
    /\ UNCHANGED ctlOther

\* streamActions writes one more decoded action; the write resolves only
\* once the chunk is read, so one chunk at most is in the stream.
EAWrite(h) ==
    /\ strm[h].state = "open"
    /\ strm[h].pending = 0
    /\ strm[h].written < MaxActs
    /\ strm' = [strm EXCEPT ![h].pending = strm[h].written + 1, ![h].written = @ + 1]
    /\ UNCHANGED <<turn, seg, pl_todoList, pl_version, ea_client>>
    /\ UNCHANGED ctlOther

\* The generation stream ends: `finally { await writer.close() }`.
EAClose(h) ==
    /\ strm[h].state = "open"
    /\ strm[h].pending = 0
    /\ strm' = [strm EXCEPT ![h].state = "closed"]
    /\ turn' = [turn EXCEPT ![h].live = @ - 1]
    /\ UNCHANGED <<seg, pl_todoList, pl_version, ea_client>>
    /\ UNCHANGED ctlOther

\* The generation stream throws: the catch drops the client, the finally
\* closes the writer before the rejection reaches writer.abort.
EAFail(h) ==
    /\ strm[h].state = "open"
    /\ strm[h].pending = 0
    /\ strm' = [strm EXCEPT ![h].state = "closed", ![h].erred = TRUE]
    /\ turn' = [turn EXCEPT ![h].live = @ - 1]
    /\ ea_client' = NoClient
    /\ UNCHANGED <<seg, pl_todoList, pl_version>>
    /\ UNCHANGED ctlOther

\* reader.read() yields a line: the action is recorded and forwarded.
Read(h) ==
    /\ turn[h].pc = "read"
    /\ strm[h].pending # 0
    /\ seg' = [seg EXCEPT ![h] = Append(@, Msg("action", strm[h].task, strm[h].pending))]
    /\ strm' = [strm EXCEPT ![h].pending = 0]
    /\ turn' = [turn EXCEPT ![h].n = @ + 1]
    /\ UNCHANGED <<pl_todoList, pl_version, ea_client>>
    /\ UNCHANGED ctlOther

\* The read loop is left although the stream has no end yet.
StreamDrained(s) == s.pending = 0

\* reader.read() reports done: every chunk was read and the writer closed.
StreamDone(s) == s.pending = 0 /\ s.state = "closed"

\* The read loop ends: planner.updateTaskStatus is called.
ReadDone(h) ==
    /\ turn[h].pc = "read"
    /\ StreamDone(strm[h])
    /\ turn' = [turn EXCEPT ![h].pc = "mark", ![h].rev = 0]
    /\ UNCHANGED <<strm, seg, pl_todoList, pl_version, ea_client>>
    /\ UNCHANGED ctlOther

\* updateTaskStatus(todoItem.id, 'done') runs in the planner; back in the
\* controller the no-action message is sent and the review or refresh begins.
Mark(h) ==
    /\ turn[h].pc = "mark"
    /\ pl_todoList' = UpdateTaskStatus(pl_todoList, turn[h].item.id, "done")
    /\ seg' = [seg EXCEPT ![h] = @ \o NoActionNotice(turn[h].n, turn[h].item)]
    /\ turn' = [turn EXCEPT ![h].pc = IF turn[h].sugg THEN "review" ELSE "refresh"]
    /\ UNCHANGED <<strm, pl_version, ea_client>>
    /\ UNCHANGED ctlOther

\* The per-task verifyActions returns n actions (none after a failure inside
\* its try): a header message and the actions are forwarded.
Review(h) ==
    /\ turn[h].pc = "review"
    /\ \E n \in 0..MaxSuggestions :
         seg' = [seg EXCEPT ![h] =
                    IF n > 0
                    THEN Append(@, Msg("sugghdr", turn[h].item, n))
                         \o Fixes("suggestion", turn[h].item, n)
                    ELSE @]
    /\ turn' = [turn EXCEPT ![h].pc = "refresh", ![h].vcalls = @ + 1, ![h].rev = @ + 1]
    /\ UNCHANGED <<strm, pl_todoList, pl_version, ea_client>>
    /\ UNCHANGED ctlOther

\* The final verifyActions returns n actions.
FinalVerify(h) ==
    /\ turn[h].pc = "final"
    /\ \E n \in 0..MaxSuggestions :
         seg' = [seg EXCEPT ![h] =
                    IF n > 0
                    THEN Append(@, Msg("finalhdr", NoItem, n)) \o Fixes("finalfix", NoItem, n)
                    ELSE Append(@, Msg("finalok", NoItem, 0))]
    /\ turn' = [turn EXCEPT ![h].pc = "done", ![h].vcalls = @ + 1]
    /\ UNCHANGED <<strm, pl_todoList, pl_version, ea_client>>
    /\ UNCHANGED ctlOther

\* verifyActions throws: the verifier has no client and its connect, which
\* is outside the try, rejects; the outer catch sends the error message.
VerifyReject(h) ==
    /\ turn[h].pc \in {"review", "final"}
    /\ turn' = [turn EXCEPT ![h].pc = "done", ![h].callfail = FALSE,
                            ![h].vcalls = @ + 1,
                            ![h].rev = @ + (IF turn[h].pc = "review" THEN 1 ELSE 0)]
    /\ seg' = [seg EXCEPT ![h] = Append(@, Msg("error", turn[h].item, 0))]
    /\ strm' = [strm EXCEPT ![h] = NoStream]
    /\ UNCHANGED <<pl_todoList, pl_version, ea_client>>
    /\ UNCHANGED ctlOther

Next ==
    \E h \in Turns :
        \/ Receive(h) \/ PlanReplace(h) \/ PlanKeep(h) \/ PlanReject(h)
        \/ GetState(h) \/ ExecuteTaskConnect(h) \/ ExecuteTaskStream(h)
        \/ ConnectOk(h) \/ ConnectFail(h)
        \/ EAWrite(h) \/ EAClose(h) \/ EAFail(h)
        \/ Read(h) \/ ReadDone(h) \/ Mark(h)
        \/ Review(h) \/ FinalVerify(h) \/ VerifyReject(h)

(***************************************************************************)
(* A role agent (PlannerAgent, VerifierAgent, ExecutorAgent) and the       *)
(* VertexAIClient it holds in `this.client`                                *)
(***************************************************************************)
MaxCalls == 3
MaxChunks == 2

\* `!this.isConnected || !this.ws` is false.
Connected(a) == a.isConnected /\ a.ws = "open"

AGInit ==
    ag = [client |-> FALSE, isConnected |-> FALSE, ws |-> "null", onEvent |-> FALSE,
          pc |-> "idle", mode |-> "send", calls |-> 0, got |-> 0, down |-> FALSE]

\* A call finds no client: one is assigned and `await this.client.connect()`
\* begins, outside the try.
AGCallConnect ==
    /\ ag.pc = "idle"
    /\ ag.calls < MaxCalls
    /\ ~ag.client
    /\ \E mode \in {"send", "stream"} :
         ag' = [ag EXCEPT !.client = TRUE, !.isConnected = FALSE, !.ws = "connecting",
                          !.onEvent = FALSE, !.pc = "connecting", !.mode = mode,
                          !.calls = @ + 1, !.got = 0]
    /\ UNCHANGED agOther

\* send() or stream() on a connected client: the handler takes the event
\* slot and the prompt is sent.
SendPrompt(a) == [a EXCEPT !.onEvent = TRUE, !.pc = "waiting", !.got = 0]

\* A call finds a connected client and sends its prompt on it.
AGCallSend ==
    /\ ag.pc = "idle"
    /\ ag.calls < MaxCalls
    /\ ag.client
    /\ Connected(ag)
    /\ \E mode \in {"send", "stream"} :
         ag' = SendPrompt([ag EXCEPT !.mode = mode, !.calls = @ + 1])
    /\ UNCHANGED agOther

\* A call finds a client that is not connected: send() or stream() throws
\* 'not connected', the catch sets this.client = null and the call returns.
AGCallNotConnected ==
    /\ ag.pc = "idle"
    /\ ag.calls < MaxCalls
    /\ ag.client
    /\ ~Connected(ag)
    /\ ag' = [ag EXCEPT !.client = FALSE, !.calls = @ + 1]
    /\ UNCHANGED agOther

\* The socket opens: connect resolves and the call sends its prompt.
AGConnectOpen ==
    /\ ag.pc = "connecting"
    /\ ag' = SendPrompt([ag EXCEPT !.isConnected = TRUE, !.ws = "open", !.down = FALSE])
    /\ UNCHANGED agOther

\* The token fetch or the socket fails: connect rejects and the call throws
\* to its caller; this.client stays assigned.
AGConnectReject ==
    /\ ag.pc = "connecting"
    /\ \E w \in {"null", "failed"} :
         ag' = [ag EXCEPT !.isConnected = FALSE, !.ws = w, !.pc = "idle", !.down = TRUE]
    /\ UNCHANGED agOther

\* A content frame arrives for the call in flight.
AGContent ==
    /\ ag.pc = "waiting"
    /\ ag.ws = "open"
    /\ ag.got < MaxChunks
    /\ ag' = [ag EXCEPT !.got = @ + 1]
    /\ UNCHANGED agOther

\* turn_complete arrives: the call settles with its text.
AGTurnComplete ==
    /\ ag.pc = "waiting"
    /\ ag.ws = "open"
    /\ ag' = [ag EXCEPT !.onEvent = FALSE, !.pc = "idle"]
    /\ UNCHANGED agOther

\* The handler gets an error event: send() rejects and the agent's catch
\* drops the client; stream() ends as if complete and the client is kept.
OnError(a) ==
    IF a.mode = "send"
    THEN [a EXCEPT !.onEvent = FALSE, !.pc = "idle", !.client = FALSE]
    ELSE [a EXCEPT !.onEvent = FALSE, !.pc = "idle"]

\* A frame with an error payload arrives for the call in flight.
AGErrorPayload ==
    /\ ag.pc = "waiting"
    /\ ag.ws = "open"
    /\ ag' = [OnError(ag) EXCEPT !.down = (ag.mode = "send")]
    /\ UNCHANGED agOther

\* The socket's 'error' listener after the connection was established.
AGSocketError ==
    /\ ag.pc # "connecting"
    /\ ag.ws = "open"
    /\ ag' = [(IF ag.pc = "waiting" THEN OnError(ag) ELSE ag)
                 EXCEPT !.isConnected = FALSE, !.ws = "failed", !.down = TRUE]
    /\ UNCHANGED agOther

\* The socket's 'close' listener: isConnected = false, ws = null, no event.
CloseListener(a) == [a EXCEPT !.isConnected = FALSE, !.ws = "null", !.down = TRUE]

\* The backend closes the socket.
AGSocketClose ==
    /\ ag.pc # "connecting"
    /\ ag.ws \in {"open", "failed"}
    /\ ag' = CloseListener(ag)
    /\ UNCHANGED agOther

AGNext ==
    \/ AGCallConnect \/ AGCallSend \/ AGCallNotConnected
    \/ AGConnectOpen \/ AGConnectReject
    \/ AGContent \/ AGTurnComplete \/ AGErrorPayload
    \/ AGSocketError \/ AGSocketClose

(***************************************************************************)
(* The bridges between a client WebSocket and the generation backend:      *)
(* "demo" is AgentDurableObject (demo worker), which opens one vertexWS    *)
(* per client message; "proxy" is handleProxyWebSocket under the agent     *)
(* worker's AgentDurableObject, which opens one vertexWebSocket per        *)
(* client and records it in vertexConnections.  A socket on which close()  *)
(* was called is "closing" until its close event is delivered.             *)
(***************************************************************************)
MaxConns == 2
MaxFrames == 2

Conns == 1..MaxConns

MaxTurnCompletes == 3

\* A generation socket with the locals of the handler that created it, and
\* what was sent on its behalf: turnComplete frames handled, verification
\* prompts sent to the backend, { type: 'complete' } messages sent to the
\* client.
NoSocket == [st |-> "none", hasVerified |-> FALSE, tc |-> 0, prompts |-> 0, completes |-> 0]

\* readyState CONNECTING or OPEN: the generation connection is open.
IsOpen(s) == s.st \in {"connecting", "open"}

\* ws.send / clientWebSocket.send: what the client received last.
Sent(b, type) == IF b.clientWebSocket = "open" THEN type ELSE b.last

BRInit ==
    br = [kind |-> "none", clientWebSocket |-> "none",
          vertexWS |-> [i \in Conns |-> NoSocket], vertexConnections |-> 0,
          last |-> "none", errFrames |-> 0]

\* fetch (demo worker): the upgrade is accepted.
DemoAccept ==
    /\ br.kind = "none"
    /\ br' = [br EXCEPT !.kind = "demo", !.clientWebSocket = "open"]
    /\ UNCHANGED brOther

\* fetch (agent worker): the upgrade is accepted and handleProxyWebSocket
\* awaits the token in connectToVertex.
ProxyAccept ==
    /\ br.kind = "none"
    /\ br' = [br EXCEPT !.kind = "proxy", !.clientWebSocket = "open",
                        !.vertexWS[1].st = "token", !.last = "connecting"]
    /\ UNCHANGED brOther

\* webSocketMessage (demo worker) starts: it awaits the token and the plan.
DemoMessage(i) ==
    /\ br.kind = "demo"
    /\ br.clientWebSocket = "open"
    /\ br.vertexWS[i].st = "none"
    /\ br' = [br EXCEPT !.vertexWS[i].st = "token"]
    /\ UNCHANGED brOther

\* webSocketMessage after its awaits: `new WebSocket(vertexWsUrl)`.  The
\* ws.send calls before it throw on a closed client socket, and a rejected
\* token fetch reaches the outer catch, so no socket is made then.
DemoConnect(i) ==
    /\ br.kind = "demo"
    /\ br.vertexWS[i].st = "token"
    /\ \E tokenOk \in BOOLEAN :
         br' = IF tokenOk /\ br.clientWebSocket = "open"
               THEN [br EXCEPT !.vertexWS[i].st = "connecting", !.last = "action"]
               ELSE [br EXCEPT !.vertexWS[i].st = "failed", !.last = Sent(br, "error")]
    /\ UNCHANGED brOther

\* connectToVertex after getAuthToken: `new WebSocket(url)` and the
\* onVertexConnected callback, or the catch when the token fetch rejected.
ProxyConnect ==
    /\ br.kind = "proxy"
    /\ br.vertexWS[1].st = "token"
    /\ \E tokenOk \in BOOLEAN :
         br' = IF tokenOk
               THEN [br EXCEPT !.vertexWS[1].st = "connecting", !.vertexConnections = 1]
               ELSE [br EXCEPT !.vertexWS[1].st = "failed", !.last = Sent(br, "error")]
    /\ UNCHANGED brOther

\* The 'open' listener: the setup message (and the prompt) is sent.
VxOpen(i) ==
    /\ br.vertexWS[i].st = "connecting"
    /\ br' = [br EXCEPT !.vertexWS[i].st = "open",
                        !.last = IF br.kind = "proxy" THEN Sent(br, "connected") ELSE @]
    /\ UNCHANGED brOther

\* The 'message' listener on a frame with model text.
VxContent(i) ==
    /\ br.vertexWS[i].st = "open"
    /\ br' = [br EXCEPT !.last = Sent(br, IF br.kind = "proxy" THEN "text_response"
                                          ELSE "action")]
    /\ UNCHANGED brOther

\* The else branch without `vertexWS.close()`.
CompleteAndStayOpen(b, i) ==
    IF ~b.vertexWS[i].hasVerified
    THEN [b EXCEPT !.vertexWS[i].hasVerified = TRUE, !.vertexWS[i].prompts = @ + 1,
                   !.last = Sent(b, "action")]
    ELSE IF b.clientWebSocket = "open"
    THEN [b EXCEPT !.vertexWS[i].completes = @ + 1, !.last = "complete"]
    ELSE b

\* The demo worker on a turnComplete frame: the first one sets hasVerified,
\* sends the verification prompt to the backend and a notice to the client;
\* a later one sends 'complete' and closes the socket.  ws.send throws first
\* on a closed client, into the listener's catch.
TwoPhaseTurnComplete(b, i) ==
    IF ~b.vertexWS[i].hasVerified
    THEN [b EXCEPT !.vertexWS[i].hasVerified = TRUE, !.vertexWS[i].prompts = @ + 1,
                   !.last = Sent(b, "action")]
    ELSE IF b.clientWebSocket = "open"
    THEN [b EXCEPT !.vertexWS[i].st = "closing", !.vertexWS[i].completes = @ + 1,
                   !.last = "complete"]
    ELSE b

\* The 'message' listener on a turnComplete frame; handleProxyWebSocket
\* relays it.
VxTurnComplete(i) ==
    /\ br.vertexWS[i].st = "open"
    /\ br.vertexWS[i].tc < MaxTurnCompletes
    /\ br' = [(IF br.kind = "proxy" THEN [br EXCEPT !.last = Sent(br, "turn_complete")]
               ELSE TwoPhaseTurnComplete(br, i))
              EXCEPT !.vertexWS[i].tc = @ + 1]
    /\ UNCHANGED brOther

\* The 'message' listener on a frame with an error payload: the demo worker
\* sends { type: 'error' } and nothing else; handleProxyWebSocket reads only
\* serverContent and toolCall.
RelayError(b, i) ==
    IF b.kind = "demo" THEN [b EXCEPT !.last = Sent(b, "error")] ELSE b

VxErrorFrame(i) ==
    /\ br.vertexWS[i].st = "open"
    /\ br.errFrames < MaxFrames
    /\ br' = [RelayError(br, i) EXCEPT !.errFrames = @ + 1]
    /\ UNCHANGED brOther

\* The 'error' listener: the demo worker sends { type: 'error' },
\* handleProxyWebSocket logs.  The close event follows.
VxError(i) ==
    /\ IsOpen(br.vertexWS[i])
    /\ br' = [br EXCEPT !.vertexWS[i].st = "failed",
                        !.last = IF br.kind = "demo" THEN Sent(br, "error") ELSE @]
    /\ UNCHANGED brOther

\* The 'close' listener: the demo worker logs; handleProxyWebSocket logs and
\* closes the client socket when it is open.
CloseListenerOf(b) ==
    IF b.kind = "proxy" /\ b.clientWebSocket = "open"
    THEN [b EXCEPT !.clientWebSocket = "closed"]
    ELSE b

\* The socket's close event: the backend closed it, or an error or the
\* bridge's own close() preceded.
VxClose(i) ==
    /\ br.vertexWS[i].st \in {"open", "closing", "failed"}
    /\ br' = [CloseListenerOf(br) EXCEPT !.vertexWS[i].st = "closed"]
    /\ UNCHANGED brOther

\* webSocketClose: the demo worker deletes the socket from activeSessions,
\* which holds nothing; the agent worker closes and deletes the socket found
\* in vertexConnections.
WebSocketCloseOf(b) ==
    IF b.kind = "demo" THEN b
    ELSE IF b.vertexConnections # 0
    THEN [b EXCEPT !.vertexWS[b.vertexConnections].st =
                       IF IsOpen(b.vertexWS[b.vertexConnections]) THEN "closing" ELSE @,
                   !.vertexConnections = 0]
    ELSE b

\* The client closes its connection.  The agent worker's fetch answers the
\* upgrade only after handleProxyWebSocket returned, so that client has no
\* connection to close while connectToVertex awaits the token.
ClientClose ==
    /\ br.clientWebSocket = "open"
    /\ ~(br.kind = "proxy" /\ br.vertexWS[1].st = "token")
    /\ br' = [WebSocketCloseOf(br) EXCEPT !.clientWebSocket = "closed"]
    /\ UNCHANGED brOther

BRNext ==
    \/ DemoAccept \/ ProxyAccept \/ ProxyConnect \/ ClientClose
    \/ \E i \in Conns :
         \/ DemoMessage(i) \/ DemoConnect(i)
         \/ VxOpen(i) \/ VxContent(i) \/ VxTurnComplete(i)
         \/ VxErrorFrame(i) \/ VxError(i) \/ VxClose(i)

(***************************************************************************)
(* The decoders applied to a whole text: extractActionsFromPartialText of  *)
(* the demo worker's AgentDurableObject and closeAndParseJson.             *)
(***************************************************************************)
\* The backquote character.
BT == "bq"

Fence == <<BT, BT, BT>>
FenceJson == Fence \o <<"j", "s", "o", "n">>

StartsAt(s, i, p) == i + Len(p) - 1 <= Len(s) /\ SubSeq(s, i, i + Len(p) - 1) = p

\* s.replace(/p\s*/g, ''): every occurrence of p with the blanks after it
\* is removed, scanning from the left.
\* One index of the scan: r.next is where the scan goes on, r.acc what was kept.
RemoveStep(r, s, p, i) ==
    IF i < r.next THEN r
    ELSE IF StartsAt(s, i, p) THEN [r EXCEPT !.next = SkipWs(s, i + Len(p))]
    ELSE [next |-> i + 1, acc |-> Append(r.acc, s[i])]

RECURSIVE RemoveRange(_, _, _, _, _)
RemoveRange(r, s, p, lo, hi) ==
    IF r.next < 0 \/ lo > hi THEN r
    ELSE IF lo = hi THEN RemoveStep(r, s, p, lo)
    ELSE RemoveRange(RemoveRange(r, s, p, lo, (lo + hi) \div 2), s, p,
                     (lo + hi) \div 2 + 1, hi)

RemoveFrom(s, p, i, acc) == RemoveRange([next |-> i, acc |-> acc], s, p, i, Len(s)).acc

\* text.replace(/```json\s*/g, '').replace(/```\s*/g, '')
RemoveMarkdown(text) == RemoveFrom(RemoveFrom(text, FenceJson, 1, << >>), Fence, 1, << >>)

\* `JSON.parse(jsonStr)` and `if (action._type) actions.push(action)`.
PushIfAction(actions, jsonStr) ==
    IF IsJSON(jsonStr) /\ Truthy(Property(jsonStr, KType)) THEN Append(actions, jsonStr)
    ELSE actions

\* One character of the scan; start is 0 for the source's -1.
ExtractStep(sc, clean, i) ==
    IF clean[i] = Q /\ clean[i - 1] # BSL THEN [sc EXCEPT !.inString = ~@]
    ELSE IF sc.inString THEN sc
    ELSE IF clean[i] = "{"
         THEN [sc EXCEPT !.depth = @ + 1, !.start = IF sc.depth = 0 THEN i ELSE @]
    ELSE IF clean[i] = "}"
         THEN IF sc.depth = 1 /\ sc.start # 0
              THEN [sc EXCEPT !.depth = 0, !.start = 0,
                              !.actions = PushIfAction(@, Slice(clean, sc.start, i))]
              ELSE [sc EXCEPT !.depth = @ - 1]
    ELSE sc

RECURSIVE ExtractRange(_, _, _, _)
ExtractRange(sc, clean, lo, hi) ==
    IF sc.depth < -Len(clean) \/ lo > hi THEN sc
    ELSE IF lo = hi THEN ExtractStep(sc, clean, lo)
    ELSE ExtractRange(ExtractRange(sc, clean, lo, (lo + hi) \div 2), clean,
                      (lo + hi) \div 2 + 1, hi)

ExtractFrom(sc, clean, i) == ExtractRange(sc, clean, i, Len(clean)).actions

\* The scan from the character after the first '[', or [] without one.
ExtractAfterArrayStart(clean, arrayStart) ==
    IF arrayStart = 0 THEN << >>
    ELSE ExtractFrom([depth |-> 0, start |-> 0, inString |-> FALSE, actions |-> << >>],
                     clean, arrayStart + 1)

ExtractClean(clean) == ExtractAfterArrayStart(clean, IndexOf(clean, "["))

\* extractActionsFromPartialText(text): the actions, each as its text.
ExtractActionsFromPartialText(text) == ExtractClean(RemoveMarkdown(text))

\* JSON.parse(text).actions as a list of element texts.
ParsedActions(text) == IF IsJSON(text) THEN ActionsOf(text) ELSE << >>

\* A list of parsed values compared as values: each without its blanks.
Canon(list) == [k \in 1..Len(list) |-> Stringify(list[k])]

\* {"_type":"t","s":"["}: a message whose text holds an opening bracket.
ActBracket == <<"{">> \o KType \o <<":">> \o Str(<<"t">>) \o <<",">> \o Str(<<"s">>)
                \o <<":">> \o Str(<<"[">>) \o <<"}">>

\* {"_type":"create","shape":{"id":"a","x":1}}
ActCreateShape ==
    <<"{">> \o KType \o <<":">> \o Str(<<"c", "r", "e", "a", "t", "e">>) \o <<",">>
    \o Str(<<"s", "h", "a", "p", "e">>) \o <<":", "{">> \o Str(<<"i", "d">>) \o <<":">>
    \o Str(<<"a">>) \o <<",">> \o Str(<<"x">>) \o <<":", "1", "}", "}">>

\* {"_type":"move","id":"a","x":5 and its closing brace
ActMoveOpen ==
    <<"{">> \o KType \o <<":">> \o Str(<<"m", "o", "v", "e">>) \o <<",">>
    \o Str(<<"i", "d">>) \o <<":">> \o Str(<<"a">>) \o <<",">> \o Str(<<"x">>) \o <<":", "5">>

ActMoveShape == ActMoveOpen \o <<"}">>

\* The buffer {"actions": [{"_type":"create","shape":{"id":"a","x":1}},
\* {"_type":"move","id":"a","x":5
ScenarioBuffer ==
    <<"{">> \o KActions \o <<":", " ", "[">> \o ActCreateShape \o <<",">> \o ActMoveOpen

MaxDecodeActions == 2

DecodeAlphabet == {ActCreate, ActMessage, ActBracket, ActCreateShape, ActMoveShape}

DecodeLists == UNION { [1..n -> DecodeAlphabet] : n \in 0..MaxDecodeActions }

\* {"s":"[","actions": [{"_type":"c"}]}: a response with a member before
\* its actions whose text holds an opening bracket.
NotedResponse ==
    <<"{">> \o Str(<<"s">>) \o <<":">> \o Str(<<"[">>) \o <<",">>
    \o Tail(Response(<<ActCreate>>))

\* Whole responses, and the buffer of a response that is still growing.
DecodeTexts ==
    { Response(as) : as \in DecodeLists } \cup {NotedResponse, ScenarioBuffer}

\* The locals of streamActions before its loop, without a forced start.
StreamStart == [buffer |-> << >>, cursor |-> 0, maybeIncompleteAction |-> NoAction,
                out |-> << >>]

\* The loop of streamActions over a text that arrives one character a chunk.
\* The chunks lo..hi in order, computed by halves to keep the evaluation
\* shallow on long texts.
RECURSIVE StreamRange(_, _, _, _)
StreamRange(st, text, lo, hi) ==
    IF st.cursor < 0 \/ lo > hi THEN st
    ELSE IF lo = hi THEN StreamChunk(st, <<text[lo]>>)
    ELSE StreamRange(StreamRange(st, text, lo, (lo + hi) \div 2), text,
                     (lo + hi) \div 2 + 1, hi)

StreamFrom(st, text, i) == StreamRange(st, text, i, Len(text))

DCInit ==
    dc = [pc |-> "idle", text |-> << >>, extracted |-> << >>, didExtract |-> FALSE,
          partialObject |-> Null, didClose |-> FALSE,
          st |-> StreamStart, didStream |-> FALSE]

\* A text has been accumulated from the backend.
DCStart ==
    /\ dc.pc = "idle"
    /\ \E text \in DecodeTexts : dc' = [dc EXCEPT !.pc = "ready", !.text = text]
    /\ UNCHANGED dcOther

\* `const actions = this.extractActionsFromPartialText(accumulatedText)`
DCExtract ==
    /\ dc.pc = "ready"
    /\ ~dc.didExtract
    /\ dc' = [dc EXCEPT !.extracted = ExtractActionsFromPartialText(dc.text),
                        !.didExtract = TRUE]
    /\ UNCHANGED dcOther

\* `const partialObject = closeAndParseJson(buffer)`
DCClose ==
    /\ dc.pc = "ready"
    /\ ~dc.didClose
    /\ dc' = [dc EXCEPT !.partialObject = CloseAndParseJson(dc.text), !.didClose = TRUE]
    /\ UNCHANGED dcOther

\* streamActions has consumed the text character by character; the stream
\* has not ended.
DCStream ==
    /\ dc.pc = "ready"
    /\ ~dc.didStream
    /\ dc' = [dc EXCEPT !.st = StreamFrom(StreamStart, dc.text, 1), !.didStream = TRUE]
    /\ UNCHANGED dcOther

DCNext == DCStart \/ DCExtract \/ DCClose \/ DCStream

(***************************************************************************)
(* What PlannerAgent.addMessage and VerifierAgent.verifyActions do with    *)
(* the response text that client.send returned.                            *)
(***************************************************************************)
\* []
EmptyList == <<"[", "]">>

KTodoList == Str(<<"t", "o", "d", "o", "L", "i", "s", "t">>)

\* The last index of c in lo..hi.
RECURSIVE LastIndexIn(_, _, _, _)
LastIndexIn(s, c, lo, hi) ==
    IF lo > hi THEN 0
    ELSE IF lo = hi THEN (IF s[lo] = c THEN lo ELSE 0)
    ELSE OrElse(LastIndexIn(s, c, (lo + hi) \div 2 + 1, hi),
                LastIndexIn(s, c, lo, (lo + hi) \div 2))

LastIndexFrom(s, c, i) == LastIndexIn(s, c, 1, i)

\* text.replace(/```json\n?|\n?```/g, ''), scanning from the left.
RemoveFencesStep(r, s, i) ==
    IF i < r.next THEN r
    ELSE IF StartsAt(s, i, FenceJson)
         THEN [r EXCEPT !.next = IF StartsAt(s, i + 7, <<NL>>) THEN i + 8 ELSE i + 7]
    ELSE IF StartsAt(s, i, <<NL>> \o Fence) THEN [r EXCEPT !.next = i + 4]
    ELSE IF StartsAt(s, i, Fence) THEN [r EXCEPT !.next = i + 3]
    ELSE [next |-> i + 1, acc |-> Append(r.acc, s[i])]

RECURSIVE RemoveFencesRange(_, _, _, _)
RemoveFencesRange(r, s, lo, hi) ==
    IF r.next < 0 \/ lo > hi THEN r
    ELSE IF lo = hi THEN RemoveFencesStep(r, s, lo)
    ELSE RemoveFencesRange(RemoveFencesRange(r, s, lo, (lo + hi) \div 2), s,
                           (lo + hi) \div 2 + 1, hi)

RemoveFencesFrom(s, i, acc) ==
    RemoveFencesRange([next |-> i, acc |-> acc], s, i, Len(s)).acc

\* const cleanText = text.replace(...).trim()
CleanText(text) == Trim(RemoveFencesFrom(text, 1, << >>))

\* s.match(/\{[\s\S]*\}/): from the first '{' to the last '}', jsonMatch[0];
\* Null for no match.
MatchBetween(s, first, last) ==
    IF first # 0 /\ last > first THEN Slice(s, first, last) ELSE Null

JsonMatch(s) == MatchBetween(s, IndexOf(s, "{"), LastIndexFrom(s, "}", Len(s)))

\* The field is taken although it is missing: the list becomes empty.
TodoListOrEmpty(data, todoList) ==
    IF Truthy(Property(data, KTodoList)) THEN Property(data, KTodoList) ELSE EmptyList

\* `if (data.todoList) this.setState({ ...this.state, todoList: data.todoList })`
TodoListAfter(data, todoList) ==
    IF Truthy(Property(data, KTodoList)) THEN Property(data, KTodoList) ELSE todoList

\* The catch rethrows what JSON.parse threw.
Rethrow(parseError) == IF parseError THEN "threw" ELSE "returned"

\* `catch (error) { console.error(...); this.client = null }`: the call
\* returns also after JSON.parse threw.
CatchAndReturn(parseError) == "returned"

\* The try block of addMessage from the response text on, with the match.
PlannerTry(jsonMatch, todoList) ==
    IF jsonMatch = Null THEN [todoList |-> todoList, parseError |-> FALSE]
    ELSE IF ~IsJSON(jsonMatch) THEN [todoList |-> todoList, parseError |-> TRUE]
    ELSE [todoList |-> TodoListAfter(jsonMatch, todoList), parseError |-> FALSE]

PlannerParse(text, todoList) == PlannerTry(JsonMatch(CleanText(text)), todoList)

\* `if (data.actions) return data.actions` and the final `return []`.
ActionsOrNone(data) ==
    IF Truthy(Property(data, KActions)) THEN Property(data, KActions) ELSE EmptyList

\* The try block of verifyActions from the response text on, with the match.
VerifierTry(jsonMatch) ==
    IF jsonMatch = Null THEN [actions |-> EmptyList, parseError |-> FALSE]
    ELSE IF ~IsJSON(jsonMatch) THEN [actions |-> EmptyList, parseError |-> TRUE]
    ELSE [actions |-> ActionsOrNone(jsonMatch), parseError |-> FALSE]

VerifierParse(text) == VerifierTry(JsonMatch(text))

(***************************************************************************)
(* Response texts, each with what it is by construction                    *)
(***************************************************************************)
TodoOld == <<"[", "{">> \o Str(<<"i", "d">>) \o <<":">> \o Str(<<"a">>) \o <<"}", "]">>
TodoNew == <<"[", "{">> \o Str(<<"i", "d">>) \o <<":">> \o Str(<<"b">>) \o <<"}", "]">>
FixList == <<"[">> \o ActCreate \o <<"]">>

Obj1(k, v) == <<"{">> \o k \o <<":">> \o v \o <<"}">>
Obj2(k1, v1, k2, v2) == <<"{">> \o k1 \o <<":">> \o v1 \o <<",">> \o k2 \o <<":">> \o v2 \o <<"}">>

\* A payload with the list and the actions it carries (Null for a missing field).
Payloads ==
    { [json |-> Obj1(KTodoList, TodoNew), todoList |-> TodoNew, actions |-> Null],
      [json |-> Obj1(KActions, FixList), todoList |-> Null, actions |-> FixList],
      [json |-> Obj2(KTodoList, TodoNew, KActions, FixList),
       todoList |-> TodoNew, actions |-> FixList],
      [json |-> Obj2(KTodoList, EmptyList, KActions, EmptyList),
       todoList |-> EmptyList, actions |-> EmptyList],
      [json |-> Obj1(Str(<<"n">>), Str(<<"o", "k">>)), todoList |-> Null, actions |-> Null] }

Prose == <<"o", "k", ":", " ">>

\* A payload as the backend writes it: bare, after prose, or in a code fence.
Wrapped(json, wrap) ==
    CASE wrap = "bare" -> json
      [] wrap = "prose" -> Prose \o json
      [] wrap = "fenceJson" -> FenceJson \o <<NL>> \o json \o <<NL>> \o Fence
      [] wrap = "fence" -> Fence \o <<NL>> \o json \o <<NL>> \o Fence

Wraps == {"bare", "prose", "fenceJson", "fence"}

\* Texts without any JSON object.
NoJsonTexts == { << >>, <<"o", "k">>, FenceJson \o <<NL>> \o <<"o", "k">> \o <<NL>> \o Fence }

\* Texts whose braces hold no valid JSON: a truncated object, two objects,
\* and an object with a bare word.
InvalidTexts ==
    { <<"{">> \o KTodoList \o <<":", "[", "}">>,
      Obj1(KTodoList, TodoNew) \o <<" ">> \o Obj1(KActions, FixList),
      <<"{", "o", "k", "}">> }

Responses ==
    { [kind |-> "payload", wrap |-> w, text |-> Wrapped(p.json, w),
       todoList |-> p.todoList, actions |-> p.actions] : p \in Payloads, w \in Wraps }
    \cup { [kind |-> "nojson", wrap |-> "bare", text |-> t,
            todoList |-> Null, actions |-> Null] : t \in NoJsonTexts }
    \cup { [kind |-> "invalid", wrap |-> "bare", text |-> t,
            todoList |-> Null, actions |-> Null] : t \in InvalidTexts }

\* The lists the planner may hold when the response arrives.
StoredLists == {EmptyList, TodoOld}

NoResponse == [kind |-> "none", wrap |-> "bare", text |-> << >>,
               todoList |-> Null, actions |-> Null]

PAInit ==
    pa = [pc |-> "idle", response |-> NoResponse, todoList |-> EmptyList,
          planner |-> "none", plannerClient |-> TRUE,
          verifier |-> "none", verifierClient |-> TRUE, verified |-> Null]

\* client.send resolves with the response text, in the planner and in the
\* verifier.
PAStart ==
    /\ pa.pc = "idle"
    /\ \E r \in Responses, l \in StoredLists :
         pa' = [pa EXCEPT !.pc = "ready", !.response = r, !.todoList = l]
    /\ UNCHANGED paOther

\* PlannerAgent.addMessage after `await this.client.send`.
PlannerAddMessage ==
    /\ pa.pc = "ready"
    /\ pa.planner = "none"
    /\ pa' = [pa EXCEPT
                !.todoList = PlannerParse(pa.response.text, pa.todoList).todoList,
                !.plannerClient = ~PlannerParse(pa.response.text, pa.todoList).parseError,
                !.planner = CatchAndReturn(PlannerParse(pa.response.text, pa.todoList).parseError)]
    /\ UNCHANGED paOther

\* VerifierAgent.verifyActions after `await this.client.send`.
VerifyActions ==
    /\ pa.pc = "ready"
    /\ pa.verifier = "none"
    /\ pa' = [pa EXCEPT
                !.verified = VerifierParse(pa.response.text).actions,
                !.verifierClient = ~VerifierParse(pa.response.text).parseError,
                !.verifier = CatchAndReturn(VerifierParse(pa.response.text).parseError)]
    /\ UNCHANGED paOther

PANext == PAStart \/ PlannerAddMessage \/ VerifyActions

(***************************************************************************)
(* The audio path: handleProxyWebSocket's client listener, and the         *)
(* controller's audio_data branch with LinterAgent                         *)
(***************************************************************************)
MaxAudio == 3

Frames == 1..MaxAudio

AUInit ==
    au = [path |-> "none", sock |-> "none", client |-> FALSE, rcvd |-> 0,
          due |-> << >>, fwd |-> << >>, errs |-> 0,
          pc |-> [k \in Frames |-> "none"]]

\* handleProxyWebSocket: connectToVertex is awaited (the socket is created,
\* or getAuthToken threw and there is none), then the client listener is
\* added.
AUProxyStart ==
    /\ au.path = "none"
    /\ \E sock \in {"connecting", "failed"} :
         au' = [au EXCEPT !.path = "proxy", !.sock = sock]
    /\ UNCHANGED auOther

\* The generation socket opens.
AUOpen ==
    /\ au.sock = "connecting"
    /\ au' = [au EXCEPT !.sock = "open"]
    /\ UNCHANGED auOther

\* The generation socket fails before it opens.
AUSockError ==
    /\ au.sock = "connecting"
    /\ au' = [au EXCEPT !.sock = "failed"]
    /\ UNCHANGED auOther

\* The generation socket closes.
AUSockClose ==
    /\ au.sock = "open"
    /\ au' = [au EXCEPT !.sock = "closed"]
    /\ UNCHANGED auOther

\* The client listener: a frame is sent on only
\* `if (vertexWebSocket && vertexWebSocket.readyState === WebSocket.OPEN)`.
ForwardIfOpen(a, k) == IF a.sock = "open" THEN [a EXCEPT !.fwd = Append(@, k)] ELSE a

\* A realtimeInput frame arrives on the proxy's client socket while the
\* generation socket exists and the client socket is open.
AUProxyFrame ==
    /\ au.path = "proxy"
    /\ au.sock \in {"connecting", "open"}
    /\ au.rcvd < MaxAudio
    /\ au' = ForwardIfOpen([au EXCEPT !.rcvd = @ + 1, !.due = Append(@, au.rcvd + 1)],
                           au.rcvd + 1)
    /\ UNCHANGED auOther

\* An audio_data message arrives at the controller: the handler awaits the
\* linter stub.
AULinterMessage ==
    /\ au.path \in {"none", "linter"}
    /\ au.rcvd < MaxAudio
    /\ au' = [au EXCEPT !.path = "linter", !.rcvd = @ + 1,
                        !.due = Append(@, au.rcvd + 1),
                        !.pc[au.rcvd + 1] = "connect"]
    /\ UNCHANGED auOther

\* LinterAgent.connect: `if (this.client) return`; else the client is
\* assigned and its connect awaited.
AULinterConnect(k) ==
    /\ au.pc[k] = "connect"
    /\ au' = IF au.client
             THEN [au EXCEPT !.pc[k] = "process"]
             ELSE [au EXCEPT !.client = TRUE, !.sock = "connecting", !.pc[k] = "connecting"]
    /\ UNCHANGED auOther

\* The awaited client.connect resolves.
AULinterConnected(k) ==
    /\ au.pc[k] = "connecting"
    /\ au.sock = "open"
    /\ au' = [au EXCEPT !.pc[k] = "process"]
    /\ UNCHANGED auOther

\* The awaited client.connect rejects: the controller's catch sends the error.
AULinterConnectRejected(k) ==
    /\ au.pc[k] = "connecting"
    /\ au.sock = "failed"
    /\ au' = [au EXCEPT !.pc[k] = "done", !.errs = @ + 1]
    /\ UNCHANGED auOther

\* `this.client.sendRealtimeInput(base64Audio)`: VertexAIClient has no such
\* member, the call throws a TypeError, which the controller's catch turns
\* into an error message.
SendRealtimeInput(a, k) == [a EXCEPT !.errs = @ + 1]

\* LinterAgent.processAudio
ProcessAudio(a, k) == IF ~a.client THEN a ELSE SendRealtimeInput(a, k)

\* The controller awaits linter.processAudio(data.data) and returns.
AUProcessAudio(k) ==
    /\ au.pc[k] = "process"
    /\ au' = [ProcessAudio(au, k) EXCEPT !.pc[k] = "done"]
    /\ UNCHANGED auOther

AUNext ==
    \/ AUProxyStart \/ AUOpen \/ AUSockError \/ AUSockClose \/ AUProxyFrame
    \/ AULinterMessage
    \/ \E k \in Frames :
         \/ AULinterConnect(k) \/ AULinterConnected(k)
         \/ AULinterConnectRejected(k) \/ AUProcessAudio(k)

(***************************************************************************)
(* The controller's shapes snapshot.  Shapes are objects: `heap` holds    *)
(* their values, arrays hold references into it.                           *)
(***************************************************************************)
MaxSnapActs == 2

ShapeA == [id |-> "a", x |-> 0, y |-> 0]
ShapeB == [id |-> "b", x |-> 0, y |-> 0]
ShapeC == [id |-> "c", x |-> 0, y |-> 0]

Item(type, shapes) == [type |-> type, shapes |-> shapes]

\* data.contextItems.items of a request.
ContextItemLists ==
    { << >>,
      <<Item("shape", <<ShapeA>>)>>,
      <<Item("shapes", <<ShapeA, ShapeB>>)>>,
      <<Item("area", << >>), Item("shape", <<ShapeB>>)>> }

\* data.selectedShapes.shapes of a request.
SelectedShapeLists == { << >>, <<ShapeA>>, <<ShapeB>> }

\* items.flatMap: a 'shape' item gives its shape, a 'shapes' item its
\* shapes, any other item nothing.
RECURSIVE ContextShapes(_)
ContextShapes(items) ==
    IF items = << >> THEN << >>
    ELSE (IF Head(items).type \in {"shape", "shapes"} THEN Head(items).shapes ELSE << >>)
         \o ContextShapes(Tail(items))

\* `const allShapes = [...contextShapes, ...selectedShapes]`
AllShapes(contextShapes, selectedShapes) == contextShapes \o selectedShapes

\* An action as parsed from a line: `target` is `action.shapeId || action.id`
\* ("" when both are missing), hasX and hasY tell `action.x !== undefined`.
Act(type, hasShape, shape, target, hasX, hasY) ==
    [type |-> type, hasShape |-> hasShape, shape |-> shape, target |-> target,
     hasX |-> hasX, x |-> 1, hasY |-> hasY, y |-> 1]

NoShape == [id |-> ""]

SnapActions ==
    { Act("create", TRUE, ShapeC, "", FALSE, FALSE),
      Act("create", TRUE, ShapeA, "", FALSE, FALSE),
      Act("create", FALSE, NoShape, "", FALSE, FALSE),
      Act("update", TRUE, [id |-> "a", x |-> 1], "", FALSE, FALSE),
      Act("update", TRUE, [id |-> "z", x |-> 1], "", FALSE, FALSE),
      Act("update", TRUE, [x |-> 1], "", FALSE, FALSE),
      Act("move", FALSE, NoShape, "a", TRUE, FALSE),
      Act("move", FALSE, NoShape, "b", FALSE, TRUE),
      Act("move", FALSE, NoShape, "z", TRUE, TRUE),
      Act("move", FALSE, NoShape, "", TRUE, TRUE),
      Act("delete", FALSE, NoShape, "a", FALSE, FALSE),
      Act("delete", FALSE, NoShape, "z", FALSE, FALSE),
      Act("delete", FALSE, NoShape, "", FALSE, FALSE),
      Act("message", FALSE, NoShape, "", FALSE, FALSE) }

\* `s.id`, "" for undefined.
IdOf(shape) == IF "id" \in DOMAIN shape THEN shape["id"] ELSE ""

\* currentShapes.findIndex(s => s.id === id); 0 for -1.
RECURSIVE FindIndexFrom(_, _, _)
FindIndexFrom(s, id, i) ==
    IF i > Len(s.currentShapes) THEN 0
    ELSE IF IdOf(s.heap[s.currentShapes[i]]) = id THEN i
    ELSE FindIndexFrom(s, id, i + 1)

FindIndex(s, id) == FindIndexFrom(s, id, 1)

\* `{ ...old, ...new }`
Spread(old, new) ==
    [k \in DOMAIN old \cup DOMAIN new |-> IF k \in DOMAIN new THEN new[k] ELSE old[k]]

\* `object.k = v`
Assign(object, k, v) ==
    [j \in DOMAIN object \cup {k} |-> IF j = k THEN v ELSE object[j]]

\* array.splice(index, 1)
Splice(array, index) ==
    [j \in 1..(Len(array) - 1) |-> IF j < index THEN array[j] ELSE array[j + 1]]

\* currentShapes.push(action.shape)
ApplyCreate(s, a) ==
    IF a.hasShape
    THEN [s EXCEPT !.heap = Append(@, a.shape),
                   !.currentShapes = Append(@, Len(s.heap) + 1)]
    ELSE s

\* currentShapes[index] = { ...currentShapes[index], ...action.shape }
ApplyUpdate(s, a) ==
    IF a.hasShape /\ IdOf(a.shape) # ""
    THEN LET index == FindIndex(s, IdOf(a.shape)) IN
         IF index # 0
         THEN [s EXCEPT !.heap = Append(@, Spread(s.heap[s.currentShapes[index]], a.shape)),
                        !.currentShapes[index] = Len(s.heap) + 1]
         ELSE s
    ELSE s

\* currentShapes[index].x = action.x; currentShapes[index].y = action.y
ApplyMove(s, a) ==
    IF a.target # ""
    THEN LET index == FindIndex(s, a.target) IN
         IF index # 0
         THEN LET ref == s.currentShapes[index]
                  movedX == IF a.hasX THEN Assign(s.heap[ref], "x", a.x) ELSE s.heap[ref]
                  movedY == IF a.hasY THEN Assign(movedX, "y", a.y) ELSE movedX
              IN [s EXCEPT !.heap[ref] = movedY]
         ELSE s
    ELSE s

\* The splice without the `index !== -1` test: splice(-1, 1) removes the
\* last element.
ApplyDeleteUnchecked(s, a) ==
    IF a.target # ""
    THEN LET index == FindIndex(s, a.target) IN
         IF index # 0
         THEN [s EXCEPT !.currentShapes = Splice(@, index)]
         ELSE IF s.currentShapes # << >>
         THEN [s EXCEPT !.currentShapes = Splice(@, Len(@))]
         ELSE s
    ELSE s

\* currentShapes.splice(index, 1)
ApplyDelete(s, a) ==
    IF a.target # ""
    THEN LET index == FindIndex(s, a.target) IN
         IF index # 0
         THEN [s EXCEPT !.currentShapes = Splice(@, index)]
         ELSE s
    ELSE s

\* The rules applied to an action read from the executor's stream.
ApplyAction(s, a) ==
    IF a.type = "create" THEN ApplyCreate(s, a)
    ELSE IF a.type = "update" THEN ApplyUpdate(s, a)
    ELSE IF a.type = "move" THEN ApplyMove(s, a)
    ELSE IF a.type = "delete" THEN ApplyDelete(s, a)
    ELSE s

\* The rules applied to an action returned by the per-task review.
ApplySuggestion(s, a) ==
    IF a.type = "create" THEN ApplyCreate(s, a)
    ELSE IF a.type = "update" THEN ApplyUpdate(s, a)
    ELSE s

\* The shapes an array of references stands for.
Values(heap, refs) == [j \in DOMAIN refs |-> heap[refs[j]]]

SNInit ==
    sn = [pc |-> "idle", heap |-> << >>, allShapes |-> << >>, received |-> << >>,
          currentShapes |-> << >>, n |-> 0, kind |-> "none",
          last |-> Act("message", FALSE, NoShape, "", FALSE, FALSE)]

\* A message with user text is parsed: its shapes are new objects, allShapes
\* refers to them and `currentShapes = [...allShapes]` copies the references.
SNStart ==
    /\ sn.pc = "idle"
    /\ \E items \in ContextItemLists, selected \in SelectedShapeLists :
         LET all == AllShapes(ContextShapes(items), selected)
             refs == [j \in DOMAIN all |-> j]
         IN sn' = [sn EXCEPT !.pc = "run", !.heap = all, !.allShapes = refs,
                             !.received = all, !.currentShapes = refs]
    /\ UNCHANGED snOther

\* A line of the executor's stream is parsed and the snapshot updated.
SNExecutorAction ==
    /\ sn.pc = "run"
    /\ sn.n < MaxSnapActs
    /\ \E a \in SnapActions :
         sn' = [ApplyAction(sn, a) EXCEPT !.n = @ + 1, !.kind = "executor", !.last = a]
    /\ UNCHANGED snOther

\* An action returned by the per-task review is taken up and forwarded.
SNSuggestion ==
    /\ sn.pc = "run"
    /\ sn.n < MaxSnapActs
    /\ \E a \in SnapActions :
         sn' = [ApplySuggestion(sn, a) EXCEPT !.n = @ + 1, !.kind = "suggestion", !.last = a]
    /\ UNCHANGED snOther

SNNext == SNStart \/ SNExecutorAction \/ SNSuggestion

(***************************************************************************)
(* VertexAIClient on an open connection: send(), stream() and subscribe()  *)
(* with the one event slot `onEvent`.  A content event is the number of    *)
(* its text chunk.                                                         *)
(***************************************************************************)
MaxClientCalls == 2
MaxContent == 2
MaxErrorEvents == 1

ClientCalls == 1..MaxClientCalls

\* `result` is what the awaited promise was resolved with: "none" while it
\* is unresolved, "done" for { done: true }, "value" for { value, done: false }
\* with the chunk in `value`.
NoCall == [kind |-> "none", pc |-> "none", got |-> << >>, queue |-> << >>,
           resolveNext |-> FALSE, done |-> FALSE, error |-> FALSE,
           result |-> "none", value |-> 0, out |-> << >>]

VCInit ==
    vc = [onEvent |-> 0, ncalls |-> 0, prompts |-> 0, turns |-> 0, content |-> 0,
          errors |-> 0, call |-> [c \in ClientCalls |-> NoCall]]

\* `this.onEvent = handler` only when the slot is free.
RegisterIfFree(v, c) == IF v.onEvent = 0 THEN [v EXCEPT !.onEvent = c] ELSE v

\* `this.onEvent = handler`
Register(v, c) == [v EXCEPT !.onEvent = c]

\* The loop with `if (done) break` ahead of the queue.
LoopDoneFirst(v, c) ==
    LET r == v.call[c] IN
    IF r.error THEN [v EXCEPT !.onEvent = 0, !.call[c].pc = "threw"]
    ELSE IF r.done THEN [v EXCEPT !.onEvent = 0, !.call[c].pc = "returned"]
    ELSE IF r.queue # << >>
    THEN [v EXCEPT !.call[c].pc = "yielded", !.call[c].out = Append(@, Head(r.queue)),
                   !.call[c].queue = Tail(@)]
    ELSE [v EXCEPT !.call[c].pc = "awaiting", !.call[c].resolveNext = TRUE]

\* stream()'s `while (true)` from its top to the next yield, await, break
\* or throw; the finally clears the slot.
Loop(v, c) ==
    LET r == v.call[c] IN
    IF r.error THEN [v EXCEPT !.onEvent = 0, !.call[c].pc = "threw"]
    ELSE IF r.queue # << >>
    THEN [v EXCEPT !.call[c].pc = "yielded", !.call[c].out = Append(@, Head(r.queue)),
                   !.call[c].queue = Tail(@)]
    ELSE IF r.done THEN [v EXCEPT !.onEvent = 0, !.call[c].pc = "returned"]
    ELSE [v EXCEPT !.call[c].pc = "awaiting", !.call[c].resolveNext = TRUE]

\* The handler stream() installs, for one event.
StreamHandler(r, type, text) ==
    IF type = "content"
    THEN IF r.resolveNext
         THEN [r EXCEPT !.got = Append(@, text), !.result = "value", !.value = text,
                        !.resolveNext = FALSE]
         ELSE [r EXCEPT !.got = Append(@, text), !.queue = Append(@, text)]
    ELSE IF type = "turn_complete"
    THEN IF r.resolveNext
         THEN [r EXCEPT !.done = TRUE, !.result = "done", !.resolveNext = FALSE]
         ELSE [r EXCEPT !.done = TRUE]
    ELSE IF r.resolveNext
         THEN [r EXCEPT !.error = TRUE, !.result = "done", !.resolveNext = FALSE]
         ELSE [r EXCEPT !.error = TRUE]

\* The handler send() installs, for one event.
SendHandler(v, c, type, text) ==
    IF type = "content" THEN [v EXCEPT !.call[c].got = Append(@, text)]
    ELSE IF type = "turn_complete"
    THEN [v EXCEPT !.onEvent = 0, !.call[c].pc = "resolved", !.call[c].done = TRUE,
                   !.call[c].out = v.call[c].got]
    ELSE [v EXCEPT !.onEvent = 0, !.call[c].pc = "rejected", !.call[c].error = TRUE]

\* emit: `if (this.onEvent) this.onEvent(event)`
Emit(v, type, text) ==
    IF v.onEvent = 0 THEN v
    ELSE IF v.call[v.onEvent].kind = "send" THEN SendHandler(v, v.onEvent, type, text)
    ELSE IF v.call[v.onEvent].kind = "stream"
    THEN [v EXCEPT !.call[v.onEvent] = StreamHandler(@, type, text)]
    ELSE IF type = "content" THEN [v EXCEPT !.call[v.onEvent].got = Append(@, text)]
    ELSE v

\* send(prompt): the handler is installed and the prompt sent.
VCSend ==
    /\ vc.ncalls < MaxClientCalls
    /\ LET c == vc.ncalls + 1 IN
       vc' = [Register(vc, c) EXCEPT !.ncalls = c, !.prompts = @ + 1,
                                     !.call[c].kind = "send", !.call[c].pc = "pending"]
    /\ UNCHANGED vcOther

\* The first next() of stream(prompt): the handler is installed, the prompt
\* sent and the loop entered.
VCStream ==
    /\ vc.ncalls < MaxClientCalls
    /\ LET c == vc.ncalls + 1 IN
       vc' = Loop([Register(vc, c) EXCEPT !.ncalls = c, !.prompts = @ + 1,
                                          !.call[c].kind = "stream"], c)
    /\ UNCHANGED vcOther

\* subscribe(callback)
VCSubscribe ==
    /\ vc.ncalls < MaxClientCalls
    /\ LET c == vc.ncalls + 1 IN
       vc' = [Register(vc, c) EXCEPT !.ncalls = c, !.call[c].kind = "subscribe",
                                     !.call[c].pc = "subscribed"]
    /\ UNCHANGED vcOther

\* handleMessage: a text part of the turn in progress.
VCContent ==
    /\ vc.turns < vc.prompts
    /\ vc.content < MaxContent
    /\ vc' = [Emit(vc, "content", vc.content + 1) EXCEPT !.content = @ + 1]
    /\ UNCHANGED vcOther

\* handleMessage: serverContent.turnComplete.
VCTurnComplete ==
    /\ vc.turns < vc.prompts
    /\ vc' = [Emit(vc, "turn_complete", 0) EXCEPT !.turns = @ + 1]
    /\ UNCHANGED vcOther

\* handleMessage: an error payload, or a frame that fails to parse.
VCError ==
    /\ vc.errors < MaxErrorEvents
    /\ vc' = [Emit(vc, "error", 0) EXCEPT !.errors = @ + 1]
    /\ UNCHANGED vcOther

\* The awaited promise was resolved and the generator goes on:
\* `if (result.done) break`, else `yield result.value`.
VCResume(c) ==
    /\ vc.call[c].pc = "awaiting"
    /\ vc.call[c].result # "none"
    /\ vc' = IF vc.call[c].result = "done"
             THEN [vc EXCEPT !.onEvent = 0, !.call[c].pc = "returned",
                             !.call[c].result = "none"]
             ELSE [vc EXCEPT !.call[c].pc = "yielded", !.call[c].result = "none",
                             !.call[c].out = Append(@, vc.call[c].value)]
    /\ UNCHANGED vcOther

\* The consumer asks for the next chunk.
VCPull(c) ==
    /\ vc.call[c].pc = "yielded"
    /\ vc' = Loop(vc, c)
    /\ UNCHANGED vcOther

VCNext ==
    \/ VCSend \/ VCStream \/ VCSubscribe
    \/ VCContent \/ VCTurnComplete \/ VCError
    \/ \E c \in ClientCalls : VCResume(c) \/ VCPull(c)

(***************************************************************************)
(* The incremental sender of the demo worker's 'message' listener (and of  *)
(* ChatAgent.onChatMessage): accumulatedText, sentActionCount and what was *)
(* sent to the client in the backend turn in progress.                     *)
(***************************************************************************)
\* What the backend may write in one turn: fenced and bare responses,
\* braces, brackets and backquotes inside and between actions, a stray
\* closing brace, an escaped quote.
ActEscaped ==
    <<"{">> \o KType \o <<":">> \o Str(<<"t">>) \o <<",">> \o Str(<<"s">>)
    \o <<":">> \o Str(<<BSL, Q, "}">>) \o <<"}">>

LiveTexts ==
    { FenceJson \o <<NL>> \o Response(<<ActCreate, ActMove>>) \o <<NL>> \o Fence,
      Response(<<ActBrace("}"), ActCreate>>),
      Response(<<ActBrace("{"), ActBracket>>),
      Response(<<ActBrace(BT), ActEscaped>>),
      <<"[">> \o ActCreate \o <<BT, BT, ",">> \o ActMove \o <<BT, BT, BT, " ", "]">>,
      <<"[", "{", "}", "}">> \o ActCreate \o <<"]">>,
      <<"o", "k">> }

\* What the backend may answer to the verification prompt: a word, or a fix.
VerifyTexts == { <<"o", "k">>, Response(<<ActCreate>>) }

LSInit ==
    ls = [pc |-> "idle", pending |-> << >>, accumulatedText |-> << >>,
          actions |-> << >>, sentActionCount |-> 0, sent |-> << >>, hasVerified |-> FALSE,
          client |-> "open", resets |-> 0]

\* The whole list in place of `actions.slice(sentActionCount)`.
AllActions(actions, sentActionCount) == actions

\* actions.slice(sentActionCount)
NewActions(actions, sentActionCount) == SubSeq(actions, sentActionCount + 1, Len(actions))

\* One text part: it is accumulated, the actions are extracted (ls.actions
\* keeps the listener's last `actions`) and the new ones sent; ws.send throws on a closed client, before the counter is set.
OnPart(l, text) ==
    LET accumulated == l.accumulatedText \o text
        actions == ExtractActionsFromPartialText(accumulated)
    IN IF Len(actions) > l.sentActionCount /\ l.client = "open"
       THEN [l EXCEPT !.accumulatedText = accumulated, !.actions = actions,
                      !.sent = @ \o NewActions(actions, l.sentActionCount),
                      !.sentActionCount = Len(actions)]
       ELSE [l EXCEPT !.accumulatedText = accumulated, !.actions = actions]

\* The backend begins a turn: the generation turn, or the verification turn
\* after the verification prompt.
LSTurn ==
    /\ ls.pc \in {"idle", "verify"}
    /\ \E text \in IF ls.pc = "idle" THEN LiveTexts ELSE VerifyTexts : ls' = [ls EXCEPT !.pc = "turn", !.pending = text]
    /\ UNCHANGED lsOther

\* The lengths a text part may have: a character or two, or all that is left.
PartLengths(pending) == {n \in {1, 2, Len(pending)} : 1 <= n /\ n <= Len(pending)}

\* A frame with a text part arrives.
LSPart ==
    /\ ls.pc = "turn"
    /\ \E n \in PartLengths(ls.pending) :
         ls' = [OnPart(ls, SubSeq(ls.pending, 1, n))
                  EXCEPT !.pending = SubSeq(ls.pending, n + 1, Len(ls.pending))]
    /\ UNCHANGED lsOther

\* turnComplete: the first one starts the verification turn and, once the
\* client was notified, resets the text and the counter; the second one
\* ends the exchange.
LSTurnComplete ==
    /\ ls.pc = "turn"
    /\ ls.pending = << >>
    /\ ls' = IF ls.hasVerified THEN [ls EXCEPT !.pc = "done"]
             ELSE IF ls.client = "open"
             THEN [ls EXCEPT !.pc = "verify", !.hasVerified = TRUE,
                             !.accumulatedText = << >>, !.actions = << >>,
                             !.sentActionCount = 0, !.sent = << >>, !.resets = @ + 1]
             ELSE [ls EXCEPT !.pc = "verify", !.hasVerified = TRUE]
    /\ UNCHANGED lsOther

\* The client closes its socket.
LSClientClose ==
    /\ ls.client = "open"
    /\ ls.pc # "done"
    /\ ls' = [ls EXCEPT !.client = "closed"]
    /\ UNCHANGED lsOther

LSNext == LSTurn \/ LSPart \/ LSTurnComplete \/ LSClientClose

(***************************************************************************)
(* The PlannerAgent's state: the todo list with the tasks' texts, and the  *)
(* message history.                                                        *)
(***************************************************************************)
MaxUpdates == 2
MaxHistory == 2

PlanIds == {"a", "b"}
PlanTexts == {"x", "y"}
Statuses == {"todo", "in-progress", "done"}
Roles == {"user", "assistant"}

\* The lists a planner response may carry: new tasks, with the ids and texts
\* the model wrote.
TodoItems == [id : PlanIds, text : PlanTexts, status : {"todo"}]
TodoLists == UNION { [1..n -> TodoItems] : n \in 0..MaxTasks }

PNInit ==
    pn = [state |-> [todoList |-> << >>, history |-> << >>], n |-> 0,
          last |-> [id |-> "", status |-> ""]]

\* `this.setState({ ...this.state, todoList })` with the mapped list.
SetTaskStatus(state, id, status) ==
    [state EXCEPT !.todoList = UpdateTaskStatus(@, id, status)]

\* generatePlan stores the list of the planner's response.
PNPlan ==
    /\ \E todoList \in TodoLists : pn' = [pn EXCEPT !.state.todoList = todoList]
    /\ UNCHANGED pnOther

\* addMessage appends to the history.
PNAddMessage ==
    /\ Len(pn.state.history) < MaxHistory
    /\ \E role \in Roles :
         pn' = [pn EXCEPT !.state.history = Append(@, [role |-> role, content |-> "m"])]
    /\ UNCHANGED pnOther

\* updateTaskStatus(id, status), for ids in the list and for one that no
\* task has.
PNUpdateTaskStatus ==
    /\ pn.n < MaxUpdates
    /\ \E id \in PlanIds \cup {"c"}, status \in Statuses :
         pn' = [pn EXCEPT !.state = SetTaskStatus(@, id, status),
                          !.n = @ + 1,
                          !.last = [id |-> id, status |-> status]]
    /\ UNCHANGED pnOther

PNNext == PNPlan \/ PNAddMessage \/ PNUpdateTaskStatus

vars == <<saVars, exVars, ctlVars, agVars, brVars, dcVars, paVars, auVars, snVars, vcVars,
          lsVars, pnVars>>

Init == SAInit /\ EXInit /\ CTInit /\ AGInit /\ BRInit /\ DCInit /\ PAInit /\ AUInit /\ SNInit /\ VCInit /\ LSInit /\ PNInit

Spec == Init /\ [][Next]_vars

SpecStream == Init /\ [][SANext]_vars

SpecExec == Init /\ [][EXNext]_vars

SpecAgent == Init /\ [][AGNext]_vars

SpecBridge == Init /\ [][BRNext]_vars

SpecDecode == Init /\ [][DCNext]_vars

SpecParse == Init /\ [][PANext]_vars

SpecAudio == Init /\ [][AUNext]_vars

SpecShapes == Init /\ [][SNNext]_vars

SpecClient == Init /\ [][VCNext]_vars

SpecLive == Init /\ [][LSNext]_vars

SpecPlanner == Init /\ [][PNNext]_vars

(***************************************************************************)
(* Properties of streamActions                                             *)
(***************************************************************************)
IsFinal(e) == e.complete

\* The indices finalized so far, in emission order.
FinalIdx(out) == LET f == SelectSeq(out, IsFinal) IN [k \in 1..Len(f) |-> f[k].idx]

FinalCount(out, i) == Cardinality({k \in 1..Len(out) : out[k].complete /\ out[k].idx = i})

\* C1: for every split of a well-formed response into chunks, every action
\* of the array has been yielded with complete=true exactly once when the
\* generator returns.
C1_EveryActionFinalizedOnce ==
    sa_pc = "done" =>
        \A i \in 0..(Len(sa_expect) - 1) : FinalCount(sa.out, i) = 1

C3_ScanLoopProgress ==
    /\ [](ex.iter + CountOpen(ex.buffer, 1) <= ex.open0)
    /\ [][ex.pc = "scan" =>
            \/ /\ ex'.pc = "scan"
               /\ Len(ex'.written) = Len(ex.written) + 1
               /\ Len(ex'.buffer) < Len(ex.buffer)
            \/ /\ ex'.pc = "scan"
               /\ ex'.written = ex.written
               /\ CountOpen(ex'.buffer, 1) = CountOpen(ex.buffer, 1) - 1
            \/ /\ ex'.pc = "recv"
               /\ ex'.written = ex.written
               /\ ex'.buffer = ex.buffer]_vars

\* A stray unmatched brace was skipped, an object was written after it, and
\* the stream ended with an unmatched brace still in the buffer.
C3_Witness ==
    /\ ex.pc = "done"
    /\ ex.skips > 0
    /\ Len(ex.written) > 0
    /\ CountOpen(ex.buffer, 1) > 0

(***************************************************************************)
(* Properties of the controller                                            *)
(***************************************************************************)
InTask == {"call", "connecting", "read", "mark", "review", "refresh"}

Kinds(log, kind) == {i \in DOMAIN log : log[i].k = kind}

\* Every task in the planner's list that carries this id is done.
TaskDone(id) ==
    \A i \in DOMAIN pl_todoList : pl_todoList[i].id = id => pl_todoList[i].status = "done"

C5_OneStreamAndNoDoubleDispatch ==
    /\ Cardinality({h \in Turns : strm[h].state = "open"}) <= 1
    /\ \A h1, h2 \in Turns :
         (h1 # h2 /\ turn[h1].pc \in InTask /\ turn[h2].pc \in InTask)
            => turn[h1].item # turn[h2].item

C7_ExecutorFailureTolerated ==
    \A h \in Turns :
        /\ turn[h].callfail =>
              /\ TaskDone(turn[h].item.id)
              /\ Cardinality(Kinds(seg[h], "error")) = 1
              /\ turn[h].finals = 1
        /\ (turn[h].pc \in {"review", "refresh"} /\ strm[h].erred) =>
              /\ TaskDone(turn[h].item.id)
              /\ Cardinality(Kinds(seg[h], "error")) = 1

\* C8: a turn started by a user message never runs the final verification
\* twice, and when it has ended it has run it once.
C8_FinalVerificationExactlyOnce ==
    \A h \in Turns :
        /\ turn[h].finals <= 1
        /\ (turn[h].pc = "done" /\ turn[h].user) => turn[h].finals = 1

\* C9: a turn started by a user message that has run its final verification
\* and ended has sent the turn-completion signal to the client.
C9_TurnCompletionSignalled ==
    \A h \in Turns :
        (turn[h].pc = "done" /\ turn[h].user /\ turn[h].finals = 1)
           => Kinds(seg[h], "complete") # {}

\* C10: no step removes a task from the planner's list or changes its id,
\* and no step takes a task from done back to todo.
C10_TasksPersistAndStayDone ==
    [][/\ Len(pl_todoList') >= Len(pl_todoList)
       /\ \A i \in DOMAIN pl_todoList :
            /\ pl_todoList'[i].id = pl_todoList[i].id
            /\ pl_todoList[i].status = "done" => pl_todoList'[i].status = "done"]_vars

(***************************************************************************)
(* Properties of the role agents' generation connection                    *)
(***************************************************************************)
\* C11: a call that starts after the agent's generation connection failed
\* (connect rejected, socket closed or errored, send rejected) establishes
\* a new connection: it goes to connect before it sends its prompt.
C11_NextCallReconnects ==
    [][(ag'.calls = ag.calls + 1 /\ ag.down) => ag'.pc = "connecting"]_vars

\* C12: a send() or stream() call is never in flight on a connection that
\* has closed: the close settles the call with an error.
C12_NoCallInFlightOnClosedSocket ==
    ag.pc = "waiting" => ag.ws = "open"

\* C13: once the client connection is closed, no generation connection
\* opened on behalf of that client is still open.
C13_ClientCloseClosesGenerationConnections ==
    br.clientWebSocket = "closed" => \A i \in Conns : ~IsOpen(br.vertexWS[i])

\* C14: a step in which the backend closes an open generation connection
\* leaves the client connection as it was, so an open one stays open.
C14_GenerationCloseLeavesClientOpen ==
    [][(\E i \in Conns : br.vertexWS[i].st = "open" /\ br'.vertexWS[i].st = "closed")
         => br'.clientWebSocket = br.clientWebSocket]_vars

\* C15: a step in which a frame with an error payload arrives while the
\* client is connected sends the client an error message and closes the
\* generation connection the frame came on.
C15_ErrorFrameRelayedAndConnectionClosed ==
    [][(br'.errFrames = br.errFrames + 1 /\ br.clientWebSocket = "open")
         => /\ br'.last = "error"
            /\ \E i \in Conns : IsOpen(br.vertexWS[i]) /\ ~IsOpen(br'.vertexWS[i])]_vars

\* C16: for a well-formed response text, each decoder returns the ordered
\* action list that JSON.parse gives for the text's actions field.
C16_DecodeEqualsParsedActions ==
    IsJSON(dc.text) =>
        /\ dc.didExtract => Canon(dc.extracted) = Canon(ParsedActions(dc.text))
        /\ dc.didClose => Canon(ActionsOf(dc.partialObject)) = Canon(ParsedActions(dc.text))

\* C17: the buffer {"actions": [{"_type":"create","shape":{"id":"a","x":1}},
\* {"_type":"move","id":"a","x":5 decodes to the create action, which is
\* complete in the buffer, followed by the move action as far as it is
\* written; streamed character by character it has yielded the create
\* action with complete=true and the move action as a preview only.
C17_ScenarioBufferDecodes ==
    dc.text = ScenarioBuffer =>
        /\ dc.didClose => Canon(ActionsOf(dc.partialObject)) = <<ActCreateShape, ActMoveShape>>
        /\ dc.didExtract => dc.extracted = <<ActCreateShape>>
        /\ dc.didStream =>
              /\ FinalIdx(dc.st.out) = <<0>>
              /\ dc.st.maybeIncompleteAction = [idx |-> 1, action |-> ActMoveShape]
              /\ Len(dc.st.out) > 0
              /\ dc.st.out[Len(dc.st.out)].idx = 1
              /\ ~dc.st.out[Len(dc.st.out)].complete

C17_Witness ==
    /\ dc.text = ScenarioBuffer
    /\ dc.didClose
    /\ dc.didExtract
    /\ dc.didStream

C19_PlannerListKeptWithoutNewList ==
    [][(pa.planner = "none" /\ pa'.planner # "none" /\ pa.response.todoList = Null)
         => pa'.todoList = pa.todoList]_vars

C19_Witness ==
    /\ pa.planner = "returned"
    /\ pa.response.kind = "payload"
    /\ pa.response.todoList = Null
    /\ pa.response.actions # Null
    /\ pa.todoList = TodoOld

C21_ReviewOnlyWithToggle ==
    \A h \in Turns :
        /\ ~turn[h].sugg => turn[h].rev = 0
        /\ (~turn[h].sugg /\ turn[h].user /\ turn[h].pc = "done") => turn[h].vcalls = 1
        /\ (turn[h].sugg /\ turn[h].pc \in {"mark", "review"}) => turn[h].rev = 0
        /\ (turn[h].sugg /\ turn[h].pc = "refresh") => turn[h].rev = 1

\* C22: every audio frame received after the audio path was started has been
\* forwarded to the generation connection, once and in arrival order, when
\* no handler is still at work on a frame.
C22_EveryAudioFrameForwarded ==
    (\A k \in Frames : au.pc[k] \in {"none", "done"}) => au.fwd = au.due

\* C23: a turn that has ended after its final verification began has ended
\* normally, whatever became of the verification: it sent no error message.
C23_FinalVerificationFailureNotFatal ==
    \A h \in Turns :
        (turn[h].pc = "done" /\ turn[h].finals = 1) => Kinds(seg[h], "error") = {}

\* C24: in the two-phase flow each generation connection (one per user
\* message) gets the verification prompt exactly once, on its first
\* turnComplete, and the client gets 'complete' at most once, only on the
\* turnComplete that follows the prompt, with the connection closed by the
\* same step; with the client connected the second turnComplete sends it.
C24_TwoPhaseOncePerMessage ==
    br.kind = "demo" =>
        \A i \in Conns :
            LET c == br.vertexWS[i] IN
            /\ c.prompts = (IF c.tc >= 1 THEN 1 ELSE 0)
            /\ c.completes <= 1
            /\ c.completes = 1 => c.tc = 2 /\ c.prompts = 1 /\ c.st \in {"closing", "closed"}
            /\ (c.tc >= 2 /\ br.clientWebSocket = "open") => c.completes = 1

C24_Witness ==
    /\ br.kind = "demo"
    /\ br.clientWebSocket = "open"
    /\ \E i \in Conns :
         /\ br.vertexWS[i].tc = 2
         /\ br.vertexWS[i].prompts = 1
         /\ br.vertexWS[i].completes = 1
         /\ br.vertexWS[i].st = "closed"

\* C25: a step that takes up a corrective action of the per-task review
\* leaves the snapshot that the executor rules give for the same action.
C25_SuggestionsAppliedLikeExecutorActions ==
    [][(sn'.n = sn.n + 1 /\ sn'.kind = "suggestion")
         => Values(sn'.heap, sn'.currentShapes)
              = Values(ApplyAction(sn, sn'.last).heap,
                       ApplyAction(sn, sn'.last).currentShapes)]_vars

\* C26: a step that applies an executor action changes the snapshot by the
\* action's kind: create appends the shape; update and move patch one shape
\* whose id matches and no other; delete removes one shape whose id matches
\* and no other; with no matching id, and for any other kind, the snapshot
\* stays as it was.
C26_SnapshotFollowsActionKind ==
    [][(sn'.n = sn.n + 1 /\ sn'.kind = "executor") =>
         LET a == sn'.last
             old == Values(sn.heap, sn.currentShapes)
             new == Values(sn'.heap, sn'.currentShapes)
             key == IF a.type = "update"
                    THEN (IF a.hasShape THEN IdOf(a.shape) ELSE "")
                    ELSE a.target
             matches == {j \in DOMAIN old : key # "" /\ IdOf(old[j]) = key}
         IN /\ a.type = "create" =>
                 new = (IF a.hasShape THEN Append(old, a.shape) ELSE old)
            /\ (a.type \in {"update", "move", "delete"} /\ matches = {}) => new = old
            /\ (a.type = "update" /\ matches # {}) =>
                 \E j \in matches :
                    /\ Len(new) = Len(old)
                    /\ \A i \in DOMAIN old \ {j} : new[i] = old[i]
                    /\ DOMAIN new[j] = DOMAIN old[j] \cup DOMAIN a.shape
                    /\ \A k \in DOMAIN a.shape : new[j][k] = a.shape[k]
                    /\ \A k \in DOMAIN old[j] \ DOMAIN a.shape : new[j][k] = old[j][k]
            /\ (a.type = "move" /\ matches # {}) =>
                 \E j \in matches :
                    /\ Len(new) = Len(old)
                    /\ \A i \in DOMAIN old \ {j} : new[i] = old[i]
                    /\ new[j].id = old[j].id
                    /\ new[j].x = (IF a.hasX THEN a.x ELSE old[j].x)
                    /\ new[j].y = (IF a.hasY THEN a.y ELSE old[j].y)
            /\ (a.type = "delete" /\ matches # {}) =>
                 \E j \in matches :
                    /\ Len(new) = Len(old) - 1
                    /\ \A i \in 1..(j - 1) : new[i] = old[i]
                    /\ \A i \in j..Len(new) : new[i] = old[i + 1]
            /\ a.type \notin {"create", "update", "move", "delete"} => new = old]_vars

C26_Witness ==
    /\ sn.n = 2
    /\ sn.kind = "executor"
    /\ sn.last.type = "delete"
    /\ sn.last.target = "a"
    /\ sn.received = <<ShapeA, ShapeB>>
    /\ Values(sn.heap, sn.currentShapes) = <<[id |-> "b", x |-> 0, y |-> 1]>>

\* C27: the merged list of context shapes has no two entries with the same
\* shape id.
C27_MergedShapesHaveNoDuplicate ==
    \A i, j \in DOMAIN sn.received :
        i # j => IdOf(sn.received[i]) # IdOf(sn.received[j])

\* C28: the shape objects received in the request keep the field values
\* they were received with.
C28_RequestShapesNeverMutated ==
    Values(sn.heap, sn.allShapes) = sn.received

\* C29: every object the executor's decoder has written carries an action
\* kind: its _type property is present and truthy.
C29_OnlyActionsEmitted ==
    \A i \in DOMAIN ex.written :
        Truthy(Property(Slice(ex.written[i], 1, Len(ex.written[i]) - 1), KType))

\* C30: when the stream of an action with a brace inside a string value,
\* followed by a second action, has ended, both actions were written, in
\* order and nothing else.
C30_BracesInStringsAreOpaque ==
    \A c \in {"{", "}"} :
        (ex.pc = "done" /\ ex.text = ActBrace(c) \o ActCreate)
           => ex.written = <<ActBrace(c) \o <<NL>>, ActCreate \o <<NL>>>>

(***************************************************************************)
(* Properties of VertexAIClient's calls                                    *)
(***************************************************************************)
\* C31: the client has one event slot, which holds nothing or the handler of
\* the call made last; an event changes only the call whose handler is in
\* the slot, so a call that a later call has overwritten gets none of the
\* events that follow.
C31_OneHandlerSlot ==
    /\ [](vc.onEvent \in {0, vc.ncalls})
    /\ [][\A c \in ClientCalls :
            (vc'.content + vc'.turns + vc'.errors # vc.content + vc.turns + vc.errors
               /\ vc'.call[c] # vc.call[c]) => c = vc.onEvent /\ c = vc.ncalls]_vars

C31_Witness ==
    /\ vc.ncalls = 2
    /\ vc.call[1].kind = "send"
    /\ vc.call[1].pc = "pending"
    /\ vc.call[1].got = << >>
    /\ vc.call[2].kind = "stream"
    /\ vc.call[2].pc = "returned"
    /\ vc.call[2].out = <<1, 2>>

\* C32: a stream() call that is the only call on its client yields the
\* chunks its handler received, in arrival order, each once: what it has
\* yielded is a prefix of what it received, short of an error event it
\* received every chunk the backend sent, and when it has returned without
\* an error event the turn was complete, it has yielded all of them and its
\* queue is empty.
C32_StreamYieldsReceivedChunksInOrder ==
    (vc.ncalls = 1 /\ vc.call[1].kind = "stream") =>
        LET r == vc.call[1] IN
        /\ Len(r.out) <= Len(r.got)
        /\ r.out = SubSeq(r.got, 1, Len(r.out))
        /\ ~r.error => r.got = [k \in 1..vc.content |-> k]
        /\ (r.pc = "returned" /\ ~r.error) =>
              /\ r.done
              /\ r.out = r.got
              /\ r.queue = << >>

C32_Witness ==
    /\ vc.ncalls = 1
    /\ vc.call[1].kind = "stream"
    /\ vc.call[1].pc = "returned"
    /\ ~vc.call[1].error
    /\ vc.call[1].out = <<1, 2>>

\* C33: a stream() call whose handler got an error event and that has ended
\* has thrown: it has not returned as if the turn were complete.
C33_StreamErrorIsThrown ==
    \A c \in ClientCalls :
        (vc.call[c].kind = "stream" /\ vc.call[c].error) => vc.call[c].pc # "returned"

(***************************************************************************)
(* Properties of the incremental sender                                    *)
(***************************************************************************)
\* C34: within a backend turn the list of actions extracted from the
\* accumulated text only grows at its end as text is appended,
\* sentActionCount never exceeds its length, and with the client connected
\* the actions sent in the turn are exactly the extracted ones, each once
\* and in order; the text and the counter are set back only by the step
\* that switches to the verification turn.
C34_IncrementalSendOncePerAction ==
    /\ [](/\ ls.sentActionCount <= Len(ls.actions)
          /\ ls.sent = SubSeq(ls.actions, 1, ls.sentActionCount)
          /\ ls.client = "open" => ls.sentActionCount = Len(ls.actions)
          /\ ls.resets <= 1)
    /\ [][\/ /\ ~ls.hasVerified
              /\ ls'.hasVerified
           \/ /\ Len(ls'.actions) >= Len(ls.actions)
              /\ ls.actions = SubSeq(ls'.actions, 1, Len(ls.actions))
              /\ ls'.sentActionCount >= ls.sentActionCount
              /\ Len(ls'.accumulatedText) >= Len(ls.accumulatedText)]_vars

C34_Witness ==
    /\ ls.pc = "turn"
    /\ ls.client = "open"
    /\ ls.pending = <<"]", "}">>
    /\ ls.sentActionCount = 2
    /\ ls.sent = <<ActBrace("}"), ActCreate>>

(***************************************************************************)
(* Properties of the dispatch loop                                         *)
(***************************************************************************)
\* C35: a task of the planner's list becomes done only in the step in
\* which the invocation that dispatched it to the Executor marks it: no task
\* becomes done without having been dispatched, also when two tasks of the
\* list carry the same id.
C35_OnlyDispatchedTaskBecomesDone ==
    [][\A i \in DOMAIN pl_todoList :
          (/\ i \in DOMAIN pl_todoList'
           /\ pl_todoList[i].status = "todo"
           /\ pl_todoList'[i].status = "done")
             => \E h \in Turns :
                   /\ turn[h].pc = "mark"
                   /\ turn'[h].pc # "mark"
                   /\ turn[h].item.ver = pl_version
                   /\ turn[h].item.pos = i]_vars
\* The number of tasks with status todo.
TodoCount(todoList) == Cardinality({i \in DOMAIN todoList : todoList[i].status = "todo"})

\* C36: every iteration of the dispatch loop strictly decreases the number
\* of todo tasks in the planner's list: the step in which an invocation
\* marks its task leaves fewer todo tasks than there were.
C36_EachIterationDecreasesTodo ==
    [][\A h \in Turns :
          (turn[h].pc = "mark" /\ turn'[h].pc # "mark")
             => TodoCount(pl_todoList') < TodoCount(pl_todoList)]_vars

\* C37: a call of the Executor that arrives while an earlier call is still
\* awaiting connect does not start a generation stream on the connection
\* that is not ready, and leaves the agent's client reference as it is.
C37_CallDuringConnectLeavesClient ==
    [][\A h1, h2 \in Turns :
          (/\ h1 # h2
           /\ turn[h1].pc = "connecting"
           /\ ea_client.owner = h1
           /\ turn[h2].pc = "call"
           /\ turn'[h2].pc # "call")
             => /\ strm'[h2].state # "open"
                /\ ea_client' = ea_client]_vars

(***************************************************************************)
(* The Executor's decoder and the chunking of the response                 *)
(***************************************************************************)
\* C38: however the response text is split into chunks, whenever the
\* decoder has worked through the chunks received so far it has written
\* what it writes for the received text delivered as one chunk; at the end
\* of the stream that is the output for the whole text in one chunk, so any
\* two splittings give the same output.
C38_DecoderIndependentOfChunking ==
    /\ ex.pc = "recv" =>
          ex.written = DecodeAll(SubSeq(ex.text, 1, Len(ex.text) - Len(ex_text)), << >>)
    /\ ex.pc = "done" => ex.written = DecodeAll(ex.text, << >>)

C38_Witness ==
    /\ ex.pc = "done"
    /\ ex.chunks = 2
    /\ ex.text = ActCreate \o <<NL>> \o ActMove \o <<NL>>
    /\ ex.written = <<ActCreate \o <<NL>>, ActMove \o <<NL>>>>

(***************************************************************************)
(* The frame of PlannerAgent.updateTaskStatus                              *)
(***************************************************************************)
\* C39: a call updateTaskStatus(id, status) keeps the number and order of
\* the tasks, every task's id and text and the message history; it sets the
\* status of the tasks whose id is id and of no other task; with an id that
\* no task has the planner's state is unchanged.
C39_UpdateChangesOnlyMatchingStatus ==
    [][pn'.n = pn.n + 1 =>
         LET old == pn.state.todoList
             new == pn'.state.todoList
         IN /\ Len(new) = Len(old)
            /\ \A i \in DOMAIN old :
                 /\ new[i].id = old[i].id
                 /\ new[i].text = old[i].text
                 /\ new[i].status = IF old[i].id = pn'.last.id THEN pn'.last.status
                                    ELSE old[i].status
            /\ pn'.state.history = pn.state.history
            /\ (\A i \in DOMAIN old : old[i].id # pn'.last.id) => pn'.state = pn.state]_vars

C39_Witness ==
    /\ pn.n = 1
    /\ pn.last = [id |-> "a", status |-> "in-progress"]
    /\ pn.state.todoList = <<[id |-> "b", text |-> "x", status |-> "todo"],
                              [id |-> "a", text |-> "y", status |-> "in-progress"]>>
    /\ Len(pn.state.history) = 1

====
